---------------------------- MODULE Spec2Model ----------------------------
(***************************************************************************)
(* The NFSv3 protocol engine of eden/fs/nfs/Nfsd3.cpp as a state machine.  *)
(*                                                                         *)
(* One slot of the state is one invocation of                              *)
(* Nfsd3ServerProcessor::dispatchRpc: the request it was given, the items  *)
(* it wrote to its reply sink, the dispatcher calls it issued and its      *)
(* position.  DispatchRpc is the synchronous part of dispatchRpc and of    *)
(* the handler it routes to; Complete is the completion of one dispatcher  *)
(* future together with every continuation (thenTry / thenValue) that the  *)
(* completion runs.  The dispatcher is external: each of its futures       *)
(* completes with any value or any error of the sets below.                *)
(***************************************************************************)
EXTENDS Integers, Sequences, FiniteSets, TLC

(***************************************************************************)
(* Bounds of the model.                                                    *)
(***************************************************************************)
MaxIno == 2
MaxProc == 23
MaxXid == 2
MaxCount == 2
MaxData == 2
MaxSlots == 2
MaxBlocks == 2

(***************************************************************************)
(* Program constants.                                                      *)
(***************************************************************************)
kNfsdProgNumber == 100003
kNfsd3ProgVersion == 3
kNumHandlers == 22
NAME_MAX == 255
S_IFREG == 32768
S_IFDIR == 16384
S_IFBLK == 24576
S_IFCHR == 8192
S_IFLNK == 40960
S_IFSOCK == 49152
S_IFIFO == 4096
S_IXUSR == 64
kDefaultFilePerm == 420
kDefaultDirPerm == 489
kBlockSize == 512

(***************************************************************************)
(* Optional values (std::optional, post_op_attr, pre_op_attr, post_op_fh3):*)
(* the empty sequence is "absent", a one-element sequence is "present".    *)
(***************************************************************************)
None == << >>
Some(v) == << v >>

(***************************************************************************)
(* Error values carried by a failed folly::Try (folly::exception_wrapper). *)
(***************************************************************************)
ListedErrnos ==
  { "EPERM", "ENOENT", "EIO", "ETXTBSY", "ENXIO", "EACCES", "EEXIST", "EXDEV",
    "ENODEV", "ENOTDIR", "EISDIR", "EINVAL", "EFBIG", "EROFS", "EMLINK",
    "ENAMETOOLONG", "ENOTEMPTY", "EDQUOT", "ESTALE", "ETIMEDOUT", "EAGAIN",
    "ENOMEM", "ENOTSUP", "ENFILE" }

UnlistedErrnos == { "ENOSPC", "EBUSY" }

Errnos == ListedErrnos \cup UnlistedErrnos

SystemError(category, code) ==
  [type |-> "std::system_error", category |-> category, code |-> code]

FutureTimeout == [type |-> "folly::FutureTimeout", category |-> "none", code |-> "none"]

OtherException == [type |-> "std::runtime_error", category |-> "none", code |-> "none"]

ErrnoErrors == { SystemError("generic", c) : c \in Errnos }

\* std::system_error of a category that is not an errno category; the code
\* value may coincide with the number of an errno.
NonErrnoSystemErrors == { SystemError("other", c) : c \in {"EEXIST", "ENOENT"} }

AllErrors == ErrnoErrors \cup NonErrnoSystemErrors \cup {FutureTimeout, OtherException}

isErrnoError(err) == err.category = "generic"

(***************************************************************************)
(* Error Map.                                                              *)
(***************************************************************************)
\* switch (err->code().value()) with the return that follows it.
ErrnoSwitch(code) ==
  CASE code = "EPERM" -> "NFS3ERR_PERM"
    [] code = "ENOENT" -> "NFS3ERR_NOENT"
    [] code \in {"EIO", "ETXTBSY"} -> "NFS3ERR_IO"
    [] code = "ENXIO" -> "NFS3ERR_NXIO"
    [] code = "EACCES" -> "NFS3ERR_ACCES"
    [] code = "EEXIST" -> "NFS3ERR_EXIST"
    [] code = "EXDEV" -> "NFS3ERR_XDEV"
    [] code = "ENODEV" -> "NFS3ERR_NODEV"
    [] code = "ENOTDIR" -> "NFS3ERR_NOTDIR"
    [] code = "EISDIR" -> "NFS3ERR_ISDIR"
    [] code = "EINVAL" -> "NFS3ERR_INVAL"
    [] code = "EFBIG" -> "NFS3ERR_FBIG"
    [] code = "EROFS" -> "NFS3ERR_ROFS"
    [] code = "EMLINK" -> "NFS3ERR_MLINK"
    [] code = "ENAMETOOLONG" -> "NFS3ERR_NAMETOOLONG"
    [] code = "ENOTEMPTY" -> "NFS3ERR_NOTEMPTY"
    [] code = "EDQUOT" -> "NFS3ERR_DQUOT"
    [] code = "ESTALE" -> "NFS3ERR_STALE"
    [] code \in {"ETIMEDOUT", "EAGAIN", "ENOMEM"} -> "NFS3ERR_JUKEBOX"
    [] code = "ENOTSUP" -> "NFS3ERR_NOTSUPP"
    [] code = "ENFILE" -> "NFS3ERR_SERVERFAULT"
    [] OTHER -> "NFS3ERR_SERVERFAULT"

\* Mutant: the errno switch applied to every std::system_error, whatever
\* its category, and no case for folly::FutureTimeout.
exceptionToNfsError_NoKinds(ex) ==
  IF ex.type = "std::system_error"
  THEN ErrnoSwitch(ex.code)
  ELSE "NFS3ERR_SERVERFAULT"

exceptionToNfsError(ex) ==
  IF ex.type = "std::system_error"
  THEN IF ~isErrnoError(ex)
       THEN "NFS3ERR_SERVERFAULT"
       ELSE ErrnoSwitch(ex.code)
  ELSE IF ex.type = "folly::FutureTimeout"
       THEN "NFS3ERR_JUKEBOX"
       ELSE "NFS3ERR_SERVERFAULT"

(***************************************************************************)
(* Attr Convert.                                                           *)
(***************************************************************************)
\* mode & S_IFMT: the file type bits are bits 12..15 of the mode.
FileTypeBits(mode) == ((mode \div S_IFIFO) % 16) * S_IFIFO

S_ISREG(mode) == FileTypeBits(mode) = S_IFREG
S_ISDIR(mode) == FileTypeBits(mode) = S_IFDIR
S_ISBLK(mode) == FileTypeBits(mode) = S_IFBLK
S_ISCHR(mode) == FileTypeBits(mode) = S_IFCHR
S_ISLNK(mode) == FileTypeBits(mode) = S_IFLNK
S_ISSOCK(mode) == FileTypeBits(mode) = S_IFSOCK

modeToFtype3(mode) ==
  IF S_ISREG(mode) THEN "NF3REG"
  ELSE IF S_ISDIR(mode) THEN "NF3DIR"
  ELSE IF S_ISBLK(mode) THEN "NF3BLK"
  ELSE IF S_ISCHR(mode) THEN "NF3CHR"
  ELSE IF S_ISLNK(mode) THEN "NF3LNK"
  ELSE IF S_ISSOCK(mode) THEN "NF3SOCK"
  ELSE "NF3FIFO"

\* The owner-exec bit of the mode: mode & S_IXUSR.
HasOwnerExec(mode) == (mode \div S_IXUSR) % 2 = 1

\* The NFS mode is an OR of distinct bits: the set of the bits that are set.
modeToNfsMode(mode) ==
  {"kReadOwnerBit", "kWriteOwnerBit", "kReadGroupBit"}
    \cup (IF HasOwnerExec(mode) THEN {"kExecOwnerBit"} ELSE {})

timespecToNfsTime(time) == [seconds |-> time.tv_sec, nseconds |-> time.tv_nsec]

\* Mutant: used is the number of blocks, not a number of bytes.
statToFattr3_UsedInBlocks(stat) ==
  [ type |-> modeToFtype3(stat.st_mode),
    mode |-> modeToNfsMode(stat.st_mode),
    nlink |-> stat.st_nlink,
    uid |-> stat.st_uid,
    gid |-> stat.st_gid,
    size |-> stat.st_size,
    used |-> stat.st_blocks,
    rdev |-> [specdata1 |-> 0, specdata2 |-> 0],
    fsid |-> stat.st_dev,
    fileid |-> stat.st_ino,
    atime |-> timespecToNfsTime(stat.st_atim),
    mtime |-> timespecToNfsTime(stat.st_mtim),
    ctime |-> timespecToNfsTime(stat.st_ctim) ]

statToFattr3(stat) ==
  [ type |-> modeToFtype3(stat.st_mode),
    mode |-> modeToNfsMode(stat.st_mode),
    nlink |-> stat.st_nlink,
    uid |-> stat.st_uid,
    gid |-> stat.st_gid,
    size |-> stat.st_size,
    used |-> stat.st_blocks * kBlockSize,
    rdev |-> [specdata1 |-> 0, specdata2 |-> 0],
    fsid |-> stat.st_dev,
    fileid |-> stat.st_ino,
    atime |-> timespecToNfsTime(stat.st_atim),
    mtime |-> timespecToNfsTime(stat.st_mtim),
    ctime |-> timespecToNfsTime(stat.st_ctim) ]

\* A folly::Try holds a value, [ok |-> TRUE, v |-> value], or an exception,
\* [ok |-> FALSE, e |-> error].
Value(v) == [ok |-> TRUE, v |-> v]
Exception(e) == [ok |-> FALSE, e |-> e]

statToPostOpAttr(statTry) ==
  IF ~statTry.ok THEN None ELSE Some(statToFattr3(statTry.v))

statToPreOpAttr(stat) ==
  Some([ size |-> stat.st_size,
         mtime |-> timespecToNfsTime(stat.st_mtim),
         ctime |-> timespecToNfsTime(stat.st_ctim) ])

(***************************************************************************)
(* The values the dispatcher hands back and the requests carry.            *)
(***************************************************************************)
Inodes == 1..MaxIno

MkStat(mode, ino) ==
  [ st_mode |-> mode, st_nlink |-> 1, st_uid |-> 1000, st_gid |-> 100,
    st_size |-> 3, st_blocks |-> 8, st_dev |-> 77, st_ino |-> ino,
    st_atim |-> [tv_sec |-> 30, tv_nsec |-> 3],
    st_mtim |-> [tv_sec |-> 20, tv_nsec |-> 2],
    st_ctim |-> [tv_sec |-> 10, tv_nsec |-> 1] ]

StatModes == { S_IFDIR + 493, S_IFREG + kDefaultFilePerm }

Stats == { MkStat(m, n) : m \in StatModes, n \in Inodes }

\* The stats handed to the attribute conversions run on their own: every
\* file type, with and without the owner-exec bit, several block counts,
\* inode numbers and devices.
FileKinds ==
  { [bits |-> S_IFREG, ftype |-> "NF3REG"], [bits |-> S_IFDIR, ftype |-> "NF3DIR"],
    [bits |-> S_IFBLK, ftype |-> "NF3BLK"], [bits |-> S_IFCHR, ftype |-> "NF3CHR"],
    [bits |-> S_IFLNK, ftype |-> "NF3LNK"], [bits |-> S_IFSOCK, ftype |-> "NF3SOCK"],
    [bits |-> S_IFIFO, ftype |-> "NF3FIFO"] }

Perms == { kDefaultFilePerm, 493 }

Devices == { 1, 77 }

AttrStats ==
  { [MkStat(k.bits + p, n) EXCEPT !.st_blocks = b, !.st_dev = d] :
      k \in FileKinds, p \in Perms, n \in Inodes, b \in 0..MaxBlocks,
      d \in Devices }

\* The folly::Try<struct stat> of an attribute fetch: a stat or an error.
AttrTries ==
  { Value(S) : S \in AttrStats }
    \cup { Exception(e) : e \in {SystemError("generic", "ENOENT"), FutureTimeout} }

\* The stat of a parent directory as CreateRes / MkdirRes / WriteRes carry it.
WccStat == MkStat(S_IFDIR + 493, 1)

OptWccStats == { None, Some(WccStat) }

Links == { "target" }

StatFsValues ==
  { [ f_blocks |-> 1000, f_bsize |-> 4096, f_bfree |-> 500, f_bavail |-> 400,
      f_files |-> 256, f_ffree |-> 100 ],
    [ f_blocks |-> 3, f_bsize |-> 2, f_bfree |-> 2, f_bavail |-> 1,
      f_files |-> 5, f_ffree |-> 4 ] }

WriteResValues ==
  [ written : 0..MaxCount, preStat : OptWccStats, postStat : OptWccStats ]

\* NfsDispatcher::CreateRes and NfsDispatcher::MkdirRes have the same shape.
CreateResValues ==
  [ ino : Inodes, stat : Stats, preDirStat : OptWccStats, postDirStat : OptWccStats ]

\* The values a dispatcher future of operation op can be fulfilled with.
DispatcherValues(op) ==
  CASE op = "getattr" -> Stats
    [] op = "getParent" -> Inodes
    [] op = "lookup" -> Inodes \X Stats
    [] op = "readlink" -> Links
    [] op = "write" -> WriteResValues
    [] op = "create" -> CreateResValues
    [] op = "mkdir" -> CreateResValues
    [] op = "statfs" -> StatFsValues

RECURSIVE Repeat(_, _)
Repeat(c, n) ==
  IF n = 0 THEN ""
  ELSE IF n % 2 = 1 THEN c \o Repeat(c, n - 1)
       ELSE LET half == Repeat(c, n \div 2) IN half \o half

\* File names: the reserved names, a plain name, and names at and just over
\* the length limit.
LookupNames == { ".", "..", "a", Repeat("n", NAME_MAX), Repeat("n", NAME_MAX + 1) }
CreateNames == { "a" }
MkdirNames == { ".", "..", "a" }

\* The bytes of a WRITE of n bytes: byte j carries the value j.
Bytes(n) == [ j \in 1..n |-> j ]

\* sattr3's mode: a set_mode3 union, absent or a mode.
OptModes(dflt) == { None, Some(dflt + 1) }

(***************************************************************************)
(* The argument cursor of a request.  A cursor whose bytes do not decode   *)
(* as the procedure's argument structure is [ok |-> FALSE]: deserializing   *)
(* it throws.                                                              *)
(***************************************************************************)
Malformed == [ok |-> FALSE]

ProcName(n) ==
  CASE n = 0 -> "NULL" [] n = 1 -> "GETATTR" [] n = 2 -> "SETATTR"
    [] n = 3 -> "LOOKUP" [] n = 4 -> "ACCESS" [] n = 5 -> "READLINK"
    [] n = 6 -> "READ" [] n = 7 -> "WRITE" [] n = 8 -> "CREATE"
    [] n = 9 -> "MKDIR" [] n = 10 -> "SYMLINK" [] n = 11 -> "MKNOD"
    [] n = 12 -> "REMOVE" [] n = 13 -> "RMDIR" [] n = 14 -> "RENAME"
    [] n = 15 -> "LINK" [] n = 16 -> "READDIR" [] n = 17 -> "READDIRPLUS"
    [] n = 18 -> "FSSTAT" [] n = 19 -> "FSINFO" [] n = 20 -> "PATHCONF"
    [] n = 21 -> "COMMIT" [] OTHER -> "none"

WellFormedArgs(name) ==
  CASE name = "GETATTR" -> [ok : {TRUE}, object : Inodes]
    [] name = "LOOKUP" -> [ok : {TRUE}, dir : Inodes, name : LookupNames]
    [] name = "ACCESS" -> [ok : {TRUE}, object : Inodes, access : {0, 5}]
    [] name = "READLINK" -> [ok : {TRUE}, symlink : Inodes]
    [] name = "WRITE" ->
         { [ok |-> TRUE, file |-> f, offset |-> o, count |-> c, stable |-> s,
            data |-> Bytes(d)] :
             f \in Inodes, o \in {0, 4096}, c \in 0..MaxCount,
             s \in {"UNSTABLE", "DATA_SYNC", "FILE_SYNC"}, d \in 0..MaxData }
    [] name = "CREATE" ->
         [ok : {TRUE}, dir : Inodes, name : CreateNames,
          how : {"UNCHECKED", "GUARDED", "EXCLUSIVE"},
          mode : OptModes(S_IFREG + kDefaultFilePerm)]
    [] name = "MKDIR" ->
         [ok : {TRUE}, dir : Inodes, name : MkdirNames,
          mode : OptModes(S_IFDIR + kDefaultDirPerm)]
    [] name = "LINK" -> [ok : {TRUE}, file : Inodes, dir : Inodes, name : {"a"}]
    [] name = "FSSTAT" -> [ok : {TRUE}, fsroot : Inodes]
    [] name = "FSINFO" -> [ok : {TRUE}, fsroot : Inodes]
    [] name = "PATHCONF" -> [ok : {TRUE}, object : Inodes]
    [] OTHER -> {[ok |-> TRUE]}

Cursors(n) == WellFormedArgs(ProcName(n)) \cup {Malformed}

Requests ==
  UNION { [ xid : 1..MaxXid, prog : {p}, progVer : {v}, proc : {n}, deser : Cursors(n) ] :
            p \in {kNfsdProgNumber, kNfsdProgNumber + 2},
            v \in {kNfsd3ProgVersion - 1, kNfsd3ProgVersion, kNfsd3ProgVersion + 1},
            n \in 0..MaxProc }

(***************************************************************************)
(* What a handler does, in the order it does it: the items it appends to   *)
(* its reply sink, the dispatcher calls it issues, an exception that       *)
(* leaves it, and the fulfilment of the future it returned.                *)
(***************************************************************************)
Write(item) == [e |-> "write", item |-> item]
Issue(op, args) == [e |-> "issue", op |-> op, args |-> args]
Deserialize(deser) == [e |-> "deserialize", ok |-> deser.ok]
Invoke(n, entry) ==
  [e |-> "invoke", proc |-> n, name |-> entry.name, handler |-> entry.handler]
Throw == [e |-> "throw"]
Fulfil == [e |-> "fulfil"]

\* serializeReply(ser, status, xid): the RPC reply header with its accept_stat.
serializeReply(status, xid) == [item |-> "accept_stat", xid |-> xid, stat |-> status]

mismatch_info(low, high) == [item |-> "mismatch_info", low |-> low, high |-> high]

\* XdrTrait<XXX3res>::serialize(ser, res): one NFS result union.
Result(proc, status, body) ==
  [item |-> "result", proc |-> proc, status |-> status, body |-> body]

\* XdrTrait<XXX3args>::deserialize(deser), followed by the rest of the
\* handler: a cursor that does not decode throws out of the handler.
WithArgs(deser, rest) ==
  <<Deserialize(deser)>> \o (IF deser.ok THEN rest ELSE <<Throw>>)

wcc_data(before, after) == [before |-> before, after |-> after]

\* wcc_data{}: both sides absent.
EmptyWcc == wcc_data(None, None)

(***************************************************************************)
(* The handlers: the synchronous part of each (what it does before it      *)
(* returns its future), and the continuation it attaches to its dispatcher *)
(* futures.  cs is the sequence of the dispatcher calls the request has    *)
(* issued, each [op, args, res]: res is None while the future is pending   *)
(* and Some(try) once it completed.                                        *)
(***************************************************************************)
null(deser, xid) == << Write(serializeReply("SUCCESS", xid)), Fulfil >>

\* Mutant: the accept_stat is written only after the dispatcher call is issued.
getattr_LateAccept(deser, xid) ==
  WithArgs(deser,
    << Issue("getattr", [ino |-> deser.object]),
       Write(serializeReply("SUCCESS", xid)) >>)

getattr(deser, xid) ==
  << Write(serializeReply("SUCCESS", xid)) >> \o
  WithArgs(deser, << Issue("getattr", [ino |-> deser.object]) >>)

getattrThen(try_) ==
  IF ~try_.ok
  THEN << Write(Result("GETATTR", exceptionToNfsError(try_.e), [void |-> TRUE])),
          Fulfil >>
  ELSE << Write(Result("GETATTR", "NFS3_OK",
                       [obj_attributes |-> statToFattr3(try_.v)])),
          Fulfil >>

setattr(deser, xid) == << Write(serializeReply("PROC_UNAVAIL", xid)), Fulfil >>

lookup(deser, xid) ==
  << Write(serializeReply("SUCCESS", xid)) >> \o
  WithArgs(deser,
    << Issue("getattr", [ino |-> deser.dir]) >> \o
    (IF Len(deser.name) > NAME_MAX
     THEN << >>
     ELSE IF deser.name = "."
          THEN << Issue("getattr", [ino |-> deser.dir]) >>
          ELSE IF deser.name = ".."
               THEN << Issue("getParent", [ino |-> deser.dir]) >>
               ELSE << Issue("lookup", [dir |-> deser.dir, name |-> deser.name]) >>))

\* Mutant: a failed directory getattr decides the status of a LOOKUP whose
\* name is too long.
lookupNameTooLongThen_MapError(try_) ==
  IF ~try_.ok
  THEN << Write(Result("LOOKUP", exceptionToNfsError(try_.e), [dir_attributes |-> None])),
          Fulfil >>
  ELSE << Write(Result("LOOKUP", "NFS3ERR_NAMETOOLONG",
                       [dir_attributes |-> Some(statToFattr3(try_.v))])),
          Fulfil >>

\* The continuation of dirAttrFut when the name is too long.
lookupNameTooLongThen(try_) ==
  IF ~try_.ok
  THEN << Write(Result("LOOKUP", "NFS3ERR_NAMETOOLONG", [dir_attributes |-> None])),
          Fulfil >>
  ELSE << Write(Result("LOOKUP", "NFS3ERR_NAMETOOLONG",
                       [dir_attributes |-> Some(statToFattr3(try_.v))])),
          Fulfil >>

\* The future made by makeFutureWith: None while it is pending, else
\* Some(Try<tuple<InodeNumber, stat>>).
\* Mutant: "." answers with the inode number found in the stat instead of
\* the directory handle of the request.
lookupTry_StatIno(deser, cs) ==
  IF cs[2].res = None THEN None
  ELSE LET first == cs[2].res[1] IN
       IF deser.name = "."
       THEN IF first.ok THEN Some(Value(<<first.v.st_ino, first.v>>)) ELSE Some(first)
       ELSE IF deser.name = ".."
            THEN IF ~first.ok THEN Some(first)
                 ELSE IF Len(cs) < 3 \/ cs[3].res = None THEN None
                      ELSE LET attr == cs[3].res[1] IN
                           IF attr.ok THEN Some(Value(<<first.v, attr.v>>))
                           ELSE Some(attr)
            ELSE Some(first)

lookupTry(deser, cs) ==
  IF cs[2].res = None THEN None
  ELSE LET first == cs[2].res[1] IN
       IF deser.name = "."
       THEN IF first.ok THEN Some(Value(<<deser.dir, first.v>>)) ELSE Some(first)
       ELSE IF deser.name = ".."
            THEN IF ~first.ok THEN Some(first)
                 ELSE IF Len(cs) < 3 \/ cs[3].res = None THEN None
                      ELSE LET attr == cs[3].res[1] IN
                           IF attr.ok THEN Some(Value(<<first.v, attr.v>>))
                           ELSE Some(attr)
            ELSE Some(first)

\* Mutant: a failed directory getattr fails the LOOKUP with its mapped error.
lookupSerialize_DirStatus(lookupTry_, dirStat) ==
  IF ~lookupTry_.ok \/ ~dirStat.ok
  THEN << Write(Result("LOOKUP",
                       exceptionToNfsError(IF ~lookupTry_.ok THEN lookupTry_.e
                                           ELSE dirStat.e),
                       [dir_attributes |-> statToPostOpAttr(dirStat)])),
          Fulfil >>
  ELSE << Write(Result("LOOKUP", "NFS3_OK",
                       [ object |-> lookupTry_.v[1],
                         obj_attributes |-> Some(statToFattr3(lookupTry_.v[2])),
                         dir_attributes |-> statToPostOpAttr(dirStat) ])),
          Fulfil >>

\* The innermost continuation of lookup: both lookupTry and dirStat are there.
lookupSerialize(lookupTry_, dirStat) ==
  IF ~lookupTry_.ok
  THEN << Write(Result("LOOKUP", exceptionToNfsError(lookupTry_.e),
                       [dir_attributes |-> statToPostOpAttr(dirStat)])),
          Fulfil >>
  ELSE << Write(Result("LOOKUP", "NFS3_OK",
                       [ object |-> lookupTry_.v[1],
                         obj_attributes |-> Some(statToFattr3(lookupTry_.v[2])),
                         dir_attributes |-> statToPostOpAttr(dirStat) ])),
          Fulfil >>

\* Mutant: ".." fetches attributes once getParent has completed, also when
\* it failed (then those of the directory itself).
lookupThen_ParentAttrAlways(deser, cs, k) ==
  IF Len(deser.name) > NAME_MAX
  THEN lookupNameTooLongThen(cs[1].res[1])
  ELSE IF k = 2 /\ deser.name = ".."
       THEN << Issue("getattr", [ino |-> IF cs[2].res[1].ok THEN cs[2].res[1].v
                                         ELSE deser.dir]) >>
       ELSE IF lookupTry(deser, cs) # None /\ cs[1].res # None
               /\ (deser.name = ".." => Len(cs) = 3 /\ cs[3].res # None)
            THEN lookupSerialize(lookupTry(deser, cs)[1], cs[1].res[1])
            ELSE << >>

\* Mutant: the reply is serialized as soon as the name resolution is there,
\* with the directory attributes absent when their getattr is still pending.
lookupThen_NoJoin(deser, cs, k) ==
  IF Len(deser.name) > NAME_MAX
  THEN lookupNameTooLongThen(cs[1].res[1])
  ELSE IF k = 2 /\ deser.name = ".." /\ cs[2].res[1].ok
       THEN << Issue("getattr", [ino |-> cs[2].res[1].v]) >>
       ELSE IF k # 1 /\ lookupTry(deser, cs) # None
            THEN lookupSerialize(lookupTry(deser, cs)[1],
                                 IF cs[1].res # None THEN cs[1].res[1]
                                 ELSE Exception(FutureTimeout))
            ELSE << >>

\* Mutant: the directory attributes are taken only when their getattr had
\* completed before the name resolution did; else they are left out.
lookupThen_DirAttrIfReady(deser, cs, k) ==
  IF Len(deser.name) > NAME_MAX
  THEN lookupNameTooLongThen(cs[1].res[1])
  ELSE IF k = 2 /\ deser.name = ".." /\ cs[2].res[1].ok
       THEN << Issue("getattr", [ino |-> cs[2].res[1].v]) >>
       ELSE IF lookupTry(deser, cs) # None /\ cs[1].res # None
            THEN lookupSerialize(lookupTry(deser, cs)[1],
                                 IF k = 1 THEN Exception(FutureTimeout)
                                 ELSE cs[1].res[1])
            ELSE << >>

\* What the completion of call k runs, cs holding its result already.
lookupThen(deser, cs, k) ==
  IF Len(deser.name) > NAME_MAX
  THEN lookupNameTooLongThen(cs[1].res[1])
  ELSE IF k = 2 /\ deser.name = ".." /\ cs[2].res[1].ok
       THEN << Issue("getattr", [ino |-> cs[2].res[1].v]) >>
       ELSE IF lookupTry(deser, cs) # None /\ cs[1].res # None
            THEN lookupSerialize(lookupTry(deser, cs)[1], cs[1].res[1])
            ELSE << >>

getEffectiveAccessRights(stat, desiredAccess) == desiredAccess

access(deser, xid) ==
  << Write(serializeReply("SUCCESS", xid)) >> \o
  WithArgs(deser, << Issue("getattr", [ino |-> deser.object]) >>)

accessThen(deser, try_) ==
  IF ~try_.ok
  THEN << Write(Result("ACCESS", exceptionToNfsError(try_.e),
                       [obj_attributes |-> None])),
          Fulfil >>
  ELSE << Write(Result("ACCESS", "NFS3_OK",
                       [ obj_attributes |-> Some(statToFattr3(try_.v)),
                         access |-> getEffectiveAccessRights(try_.v, deser.access) ])),
          Fulfil >>

readlink(deser, xid) ==
  << Write(serializeReply("SUCCESS", xid)) >> \o
  WithArgs(deser,
    << Issue("getattr", [ino |-> deser.symlink]),
       Issue("readlink", [ino |-> deser.symlink]) >>)

\* Mutant: a failed getattr decides the status of READLINK.
readlinkSerialize_AttrStatus(tryReadlink, tryAttr) ==
  IF ~tryReadlink.ok \/ ~tryAttr.ok
  THEN << Write(Result("READLINK",
                       exceptionToNfsError(IF ~tryAttr.ok THEN tryAttr.e
                                           ELSE tryReadlink.e),
                       [symlink_attributes |-> statToPostOpAttr(tryAttr)])),
          Fulfil >>
  ELSE << Write(Result("READLINK", "NFS3_OK",
                       [ symlink_attributes |-> statToPostOpAttr(tryAttr),
                         data |-> tryReadlink.v ])),
          Fulfil >>

readlinkSerialize(tryReadlink, tryAttr) ==
  IF ~tryReadlink.ok
  THEN << Write(Result("READLINK", exceptionToNfsError(tryReadlink.e),
                       [symlink_attributes |-> statToPostOpAttr(tryAttr)])),
          Fulfil >>
  ELSE << Write(Result("READLINK", "NFS3_OK",
                       [ symlink_attributes |-> statToPostOpAttr(tryAttr),
                         data |-> tryReadlink.v ])),
          Fulfil >>

\* Mutant: the reply is serialized as soon as readlink has completed, with
\* the attributes absent when getattr is still pending.
readlinkThen_NoJoin(cs) ==
  IF cs[2].res # None
  THEN readlinkSerialize(cs[2].res[1],
                         IF cs[1].res # None THEN cs[1].res[1]
                         ELSE Exception(FutureTimeout))
  ELSE << >>

readlinkThen(cs) ==
  IF cs[2].res # None /\ cs[1].res # None
  THEN readlinkSerialize(cs[2].res[1], cs[1].res[1])
  ELSE << >>

read(deser, xid) == << Write(serializeReply("PROC_UNAVAIL", xid)), Fulfil >>

makeWriteVerf == 0

\* folly::IOBufQueue::split(n): the first n bytes of the queue, or None when
\* the queue holds fewer than n bytes (split then throws std::underflow_error).
IOBufQueueSplit(data, n) ==
  IF n > Len(data) THEN None ELSE Some(SubSeq(data, 1, n))

write(deser, xid) ==
  << Write(serializeReply("SUCCESS", xid)) >> \o
  WithArgs(deser,
    LET data == IOBufQueueSplit(deser.data, deser.count) IN
    IF data = None
    THEN << Throw >>
    ELSE << Issue("write", [ino |-> deser.file, data |-> data[1],
                            offset |-> deser.offset]) >>)

\* Mutant: the pre-operation side of the wcc data is left out.
writeThen_NoPreStat(writeTry) ==
  IF ~writeTry.ok
  THEN << Write(Result("WRITE", exceptionToNfsError(writeTry.e),
                       [file_wcc |-> EmptyWcc])),
          Fulfil >>
  ELSE LET writeRes == writeTry.v IN
       << Write(Result("WRITE", "NFS3_OK",
            [ file_wcc |->
                wcc_data(None,
                         IF writeRes.postStat # None
                         THEN Some(statToFattr3(writeRes.postStat[1])) ELSE None),
              count |-> writeRes.written,
              committed |-> "FILE_SYNC",
              verf |-> makeWriteVerf ])),
          Fulfil >>

writeThen(writeTry) ==
  IF ~writeTry.ok
  THEN << Write(Result("WRITE", exceptionToNfsError(writeTry.e),
                       [file_wcc |-> EmptyWcc])),
          Fulfil >>
  ELSE LET writeRes == writeTry.v IN
       << Write(Result("WRITE", "NFS3_OK",
            [ file_wcc |->
                wcc_data(IF writeRes.preStat # None
                         THEN statToPreOpAttr(writeRes.preStat[1]) ELSE None,
                         IF writeRes.postStat # None
                         THEN Some(statToFattr3(writeRes.postStat[1])) ELSE None),
              count |-> writeRes.written,
              committed |-> "FILE_SYNC",
              verf |-> makeWriteVerf ])),
          Fulfil >>

\* Mutant: any system error whose code is EEXIST counts, whatever its category.
isEexist_AnyCategory(ex) ==
  IF ex.type = "std::system_error"
  THEN ex.code = "EEXIST"
  ELSE FALSE

isEexist(ex) ==
  IF ex.type = "std::system_error"
  THEN isErrnoError(ex) /\ ex.code = "EEXIST"
  ELSE FALSE

\* Mutant: EXCLUSIVE is passed on to the dispatcher like GUARDED.
create_ExclusiveToDispatcher(deser, xid) ==
  << Write(serializeReply("SUCCESS", xid)) >> \o
  WithArgs(deser,
    LET mode == IF deser.mode # None THEN deser.mode[1]
                ELSE S_IFREG + kDefaultFilePerm IN
    << Issue("create", [dir |-> deser.dir, name |-> deser.name,
                        mode |-> mode]) >>)

create(deser, xid) ==
  << Write(serializeReply("SUCCESS", xid)) >> \o
  WithArgs(deser,
    IF deser.how = "EXCLUSIVE"
    THEN << Write(Result("CREATE", "NFS3ERR_NOTSUPP", [dir_wcc |-> EmptyWcc])),
            Fulfil >>
    ELSE LET mode == IF deser.mode # None THEN deser.mode[1]
                     ELSE S_IFREG + kDefaultFilePerm IN
         << Issue("create", [dir |-> deser.dir, name |-> deser.name,
                             mode |-> mode]) >>)

\* CREATE3resok / MKDIR3resok of a CreateRes / MkdirRes.
CreateResOk(createRes) ==
  [ obj |-> Some(createRes.ino),
    obj_attributes |-> Some(statToFattr3(createRes.stat)),
    dir_wcc |->
      wcc_data(IF createRes.preDirStat # None
               THEN statToPreOpAttr(createRes.preDirStat[1]) ELSE None,
               IF createRes.postDirStat # None
               THEN Some(statToFattr3(createRes.postDirStat[1])) ELSE None) ]

\* Mutant: a failed CREATE replies with the status alone, without wcc_data.
createThen_NoWcc(deser, try_) ==
  IF ~try_.ok
  THEN IF deser.how = "UNCHECKED" /\ isEexist(try_.e)
       THEN << Write(Result("CREATE", "NFS3_OK",
                            [ obj |-> None, obj_attributes |-> None,
                              dir_wcc |-> wcc_data(None, None) ])),
               Fulfil >>
       ELSE << Write(Result("CREATE", exceptionToNfsError(try_.e),
                            [void |-> TRUE])),
               Fulfil >>
  ELSE << Write(Result("CREATE", "NFS3_OK", CreateResOk(try_.v))), Fulfil >>

createThen(deser, try_) ==
  IF ~try_.ok
  THEN IF deser.how = "UNCHECKED" /\ isEexist(try_.e)
       THEN << Write(Result("CREATE", "NFS3_OK",
                            [ obj |-> None, obj_attributes |-> None,
                              dir_wcc |-> wcc_data(None, None) ])),
               Fulfil >>
       ELSE << Write(Result("CREATE", exceptionToNfsError(try_.e),
                            [dir_wcc |-> EmptyWcc])),
               Fulfil >>
  ELSE << Write(Result("CREATE", "NFS3_OK", CreateResOk(try_.v))), Fulfil >>

\* Mutant: only "." is refused; ".." is handed to the dispatcher.
mkdir_DotOnly(deser, xid) ==
  << Write(serializeReply("SUCCESS", xid)) >> \o
  WithArgs(deser,
    IF deser.name = "."
    THEN << Write(Result("MKDIR", "NFS3ERR_EXIST", [dir_wcc |-> EmptyWcc])),
            Fulfil >>
    ELSE LET mode == IF deser.mode # None THEN deser.mode[1]
                     ELSE S_IFDIR + kDefaultDirPerm IN
         << Issue("mkdir", [dir |-> deser.dir, name |-> deser.name,
                            mode |-> mode]) >>)

mkdir(deser, xid) ==
  << Write(serializeReply("SUCCESS", xid)) >> \o
  WithArgs(deser,
    IF deser.name = "." \/ deser.name = ".."
    THEN << Write(Result("MKDIR", "NFS3ERR_EXIST", [dir_wcc |-> EmptyWcc])),
            Fulfil >>
    ELSE LET mode == IF deser.mode # None THEN deser.mode[1]
                     ELSE S_IFDIR + kDefaultDirPerm IN
         << Issue("mkdir", [dir |-> deser.dir, name |-> deser.name,
                            mode |-> mode]) >>)

mkdirThen(try_) ==
  IF ~try_.ok
  THEN << Write(Result("MKDIR", exceptionToNfsError(try_.e),
                       [dir_wcc |-> EmptyWcc])),
          Fulfil >>
  ELSE << Write(Result("MKDIR", "NFS3_OK", CreateResOk(try_.v))), Fulfil >>

symlink(deser, xid) == << Write(serializeReply("PROC_UNAVAIL", xid)), Fulfil >>

mknod(deser, xid) == << Write(serializeReply("PROC_UNAVAIL", xid)), Fulfil >>

remove(deser, xid) == << Write(serializeReply("PROC_UNAVAIL", xid)), Fulfil >>

rmdir(deser, xid) == << Write(serializeReply("PROC_UNAVAIL", xid)), Fulfil >>

\* Mutant: RENAME accepted and refused at the NFS level.
rename_NotSupp(deser, xid) ==
  << Write(serializeReply("SUCCESS", xid)) >> \o
  WithArgs(deser,
    << Write(Result("RENAME", "NFS3ERR_NOTSUPP", [void |-> TRUE])), Fulfil >>)

rename(deser, xid) == << Write(serializeReply("PROC_UNAVAIL", xid)), Fulfil >>

link(deser, xid) ==
  << Write(serializeReply("SUCCESS", xid)) >> \o
  WithArgs(deser, << Issue("getattr", [ino |-> deser.file]) >>)

\* Mutant: a failed getattr decides the status of LINK.
linkThen_MapError(try_) ==
  << Write(Result("LINK",
                  IF try_.ok THEN "NFS3ERR_NOTSUPP" ELSE exceptionToNfsError(try_.e),
                  [ file_attributes |-> statToPostOpAttr(try_),
                    linkdir_wcc |-> EmptyWcc ])),
     Fulfil >>

linkThen(try_) ==
  << Write(Result("LINK", "NFS3ERR_NOTSUPP",
                  [ file_attributes |-> statToPostOpAttr(try_),
                    linkdir_wcc |-> EmptyWcc ])),
     Fulfil >>

readdir(deser, xid) == << Write(serializeReply("PROC_UNAVAIL", xid)), Fulfil >>

readdirplus(deser, xid) == << Write(serializeReply("PROC_UNAVAIL", xid)), Fulfil >>

\* Mutant: statfs and getattr are both issued before fsstat returns.
fsstat_Concurrent(deser, xid) ==
  << Write(serializeReply("SUCCESS", xid)) >> \o
  WithArgs(deser, << Issue("statfs", [ino |-> deser.fsroot]),
                     Issue("getattr", [ino |-> deser.fsroot]) >>)

fsstat(deser, xid) ==
  << Write(serializeReply("SUCCESS", xid)) >> \o
  WithArgs(deser, << Issue("statfs", [ino |-> deser.fsroot]) >>)

\* Mutant: abytes counts the available blocks in bytes, f_bavail * f_bsize.
fsstatSerialize_AbytesBsize(statFsTry, statTry) ==
  IF ~statFsTry.ok
  THEN << Write(Result("FSSTAT", exceptionToNfsError(statFsTry.e),
                       [obj_attributes |-> statToPostOpAttr(statTry)])),
          Fulfil >>
  ELSE LET statfs == statFsTry.v IN
       << Write(Result("FSSTAT", "NFS3_OK",
            [ obj_attributes |-> statToPostOpAttr(statTry),
              tbytes |-> statfs.f_blocks * statfs.f_bsize,
              fbytes |-> statfs.f_bfree * statfs.f_bsize,
              abytes |-> statfs.f_bavail * statfs.f_bsize,
              tfiles |-> statfs.f_files,
              ffiles |-> statfs.f_ffree,
              afiles |-> statfs.f_ffree,
              invarsec |-> 0 ])),
          Fulfil >>

fsstatSerialize(statFsTry, statTry) ==
  IF ~statFsTry.ok
  THEN << Write(Result("FSSTAT", exceptionToNfsError(statFsTry.e),
                       [obj_attributes |-> statToPostOpAttr(statTry)])),
          Fulfil >>
  ELSE LET statfs == statFsTry.v IN
       << Write(Result("FSSTAT", "NFS3_OK",
            [ obj_attributes |-> statToPostOpAttr(statTry),
              tbytes |-> statfs.f_blocks * statfs.f_bsize,
              fbytes |-> statfs.f_bfree * statfs.f_bsize,
              abytes |-> statfs.f_bavail * statfs.f_bavail,
              tfiles |-> statfs.f_files,
              ffiles |-> statfs.f_ffree,
              afiles |-> statfs.f_ffree,
              invarsec |-> 0 ])),
          Fulfil >>

\* The continuation of statfs issues getattr; the continuation of that
\* getattr serializes.
fsstatThen(deser, cs, k) ==
  IF k = 1
  THEN << Issue("getattr", [ino |-> deser.fsroot]) >>
  ELSE fsstatSerialize(cs[1].res[1], cs[2].res[1])

fsinfo(deser, xid) ==
  << Write(serializeReply("SUCCESS", xid)) >> \o
  WithArgs(deser,
    << Write(Result("FSINFO", "NFS3_OK",
         [ obj_attributes |-> None,
           rtmax |-> 1024 * 1024, rtpref |-> 1024 * 1024, rtmult |-> 1,
           wtmax |-> 1024 * 1024, wtpref |-> 1024 * 1024, wtmult |-> 1,
           dtpref |-> 1024 * 1024,
           maxfilesize |-> "UINT64_MAX",
           time_delta |-> [seconds |-> 0, nseconds |-> 1],
           properties |-> {"FSF3_SYMLINK", "FSF3_HOMOGENEOUS", "FSF3_CANSETTIME"} ])),
       Fulfil >>)

\* Mutant: case_insensitive repeats the flag instead of negating it.
pathconf_FlagNotNegated(deser, xid, caseSensitive_) ==
  << Write(serializeReply("SUCCESS", xid)) >> \o
  WithArgs(deser,
    << Write(Result("PATHCONF", "NFS3_OK",
         [ obj_attributes |-> None,
           linkmax |-> 0,
           name_max |-> NAME_MAX,
           no_trunc |-> TRUE,
           chown_restricted |-> TRUE,
           case_insensitive |-> caseSensitive_,
           case_preserving |-> TRUE ])),
       Fulfil >>)

pathconf(deser, xid, caseSensitive_) ==
  << Write(serializeReply("SUCCESS", xid)) >> \o
  WithArgs(deser,
    << Write(Result("PATHCONF", "NFS3_OK",
         [ obj_attributes |-> None,
           linkmax |-> 0,
           name_max |-> NAME_MAX,
           no_trunc |-> TRUE,
           chown_restricted |-> TRUE,
           case_insensitive |-> ~caseSensitive_,
           case_preserving |-> TRUE ])),
       Fulfil >>)

commit(deser, xid) == << Write(serializeReply("PROC_UNAVAIL", xid)), Fulfil >>

(***************************************************************************)
(* Handler Table and Dispatch Router.                                      *)
(***************************************************************************)
\* enum class nfsv3Procs: the procedure numbers of RFC 1813.
nfsv3Procs ==
  [ null |-> 0, getattr |-> 1, setattr |-> 2, lookup |-> 3, access |-> 4,
    readlink |-> 5, read |-> 6, write |-> 7, create |-> 8, mkdir |-> 9,
    symlink |-> 10, mknod |-> 11, remove |-> 12, rmdir |-> 13, rename |-> 14,
    link |-> 15, readdir |-> 16, readdirplus |-> 17, fsstat |-> 18,
    fsinfo |-> 19, pathconf |-> 20, commit |-> 21 ]

\* HandlerEntry(): an empty name and a null handler.
HandlerEntry == [name |-> "", handler |-> "nullptr"]

kNfs3dHandlers ==
  LET handlers == [n \in 0..(kNumHandlers - 1) |-> HandlerEntry] IN
  [ handlers EXCEPT
      ![nfsv3Procs.null] = [name |-> "NULL", handler |-> "null"],
      ![nfsv3Procs.getattr] = [name |-> "GETATTR", handler |-> "getattr"],
      ![nfsv3Procs.setattr] = [name |-> "SETATTR", handler |-> "setattr"],
      ![nfsv3Procs.lookup] = [name |-> "LOOKUP", handler |-> "lookup"],
      ![nfsv3Procs.access] = [name |-> "ACCESS", handler |-> "access"],
      ![nfsv3Procs.readlink] = [name |-> "READLINK", handler |-> "readlink"],
      ![nfsv3Procs.read] = [name |-> "READ", handler |-> "read"],
      ![nfsv3Procs.write] = [name |-> "WRITE", handler |-> "write"],
      ![nfsv3Procs.create] = [name |-> "CREATE", handler |-> "create"],
      ![nfsv3Procs.mkdir] = [name |-> "MKDIR", handler |-> "mkdir"],
      ![nfsv3Procs.symlink] = [name |-> "SYMLINK", handler |-> "symlink"],
      ![nfsv3Procs.mknod] = [name |-> "MKNOD", handler |-> "mknod"],
      ![nfsv3Procs.remove] = [name |-> "REMOVE", handler |-> "remove"],
      ![nfsv3Procs.rmdir] = [name |-> "RMDIR", handler |-> "rmdir"],
      ![nfsv3Procs.rename] = [name |-> "RENAME", handler |-> "rename"],
      ![nfsv3Procs.link] = [name |-> "LINK", handler |-> "link"],
      ![nfsv3Procs.readdir] = [name |-> "READDIR", handler |-> "readdir"],
      ![nfsv3Procs.readdirplus] = [name |-> "READDIRPLUS", handler |-> "readdirplus"],
      ![nfsv3Procs.fsstat] = [name |-> "FSSTAT", handler |-> "fsstat"],
      ![nfsv3Procs.fsinfo] = [name |-> "FSINFO", handler |-> "fsinfo"],
      ![nfsv3Procs.pathconf] = [name |-> "PATHCONF", handler |-> "pathconf"],
      ![nfsv3Procs.commit] = [name |-> "COMMIT", handler |-> "commit"] ]

\* (this->*handlerEntry.handler)(deser, ser, xid); a call through a null
\* handler does not return.
CallHandler(handler, deser, xid, caseSensitive_) ==
  CASE handler = "null" -> null(deser, xid)
    [] handler = "getattr" -> getattr(deser, xid)
    [] handler = "setattr" -> setattr(deser, xid)
    [] handler = "lookup" -> lookup(deser, xid)
    [] handler = "access" -> access(deser, xid)
    [] handler = "readlink" -> readlink(deser, xid)
    [] handler = "read" -> read(deser, xid)
    [] handler = "write" -> write(deser, xid)
    [] handler = "create" -> create(deser, xid)
    [] handler = "mkdir" -> mkdir(deser, xid)
    [] handler = "symlink" -> symlink(deser, xid)
    [] handler = "mknod" -> mknod(deser, xid)
    [] handler = "remove" -> remove(deser, xid)
    [] handler = "rmdir" -> rmdir(deser, xid)
    [] handler = "rename" -> rename(deser, xid)
    [] handler = "link" -> link(deser, xid)
    [] handler = "readdir" -> readdir(deser, xid)
    [] handler = "readdirplus" -> readdirplus(deser, xid)
    [] handler = "fsstat" -> fsstat(deser, xid)
    [] handler = "fsinfo" -> fsinfo(deser, xid)
    [] handler = "pathconf" -> pathconf(deser, xid, caseSensitive_)
    [] handler = "commit" -> commit(deser, xid)
    [] OTHER -> << Throw >>

\* Mutant: the version is checked before the program number.
dispatchRpc_VersionFirst(deser, xid, progNumber, progVersion, procNumber, caseSensitive_) ==
  IF progVersion # kNfsd3ProgVersion
  THEN << Write(serializeReply("PROG_MISMATCH", xid)),
          Write(mismatch_info(kNfsd3ProgVersion, kNfsd3ProgVersion)),
          Fulfil >>
  ELSE IF progNumber # kNfsdProgNumber
       THEN << Write(serializeReply("PROG_UNAVAIL", xid)), Fulfil >>
       ELSE IF procNumber >= kNumHandlers
            THEN << Write(serializeReply("PROC_UNAVAIL", xid)), Fulfil >>
            ELSE LET handlerEntry == kNfs3dHandlers[procNumber] IN
                 << Invoke(procNumber, handlerEntry) >> \o
                 CallHandler(handlerEntry.handler, deser, xid, caseSensitive_)

\* Mutant: the procedure number is checked before the version.
dispatchRpc_ProcFirst(deser, xid, progNumber, progVersion, procNumber, caseSensitive_) ==
  IF progNumber # kNfsdProgNumber
  THEN << Write(serializeReply("PROG_UNAVAIL", xid)), Fulfil >>
  ELSE IF procNumber >= kNumHandlers
       THEN << Write(serializeReply("PROC_UNAVAIL", xid)), Fulfil >>
       ELSE IF progVersion # kNfsd3ProgVersion
            THEN << Write(serializeReply("PROG_MISMATCH", xid)),
                    Write(mismatch_info(kNfsd3ProgVersion, kNfsd3ProgVersion)),
                    Fulfil >>
            ELSE LET handlerEntry == kNfs3dHandlers[procNumber] IN
                 << Invoke(procNumber, handlerEntry) >> \o
                 CallHandler(handlerEntry.handler, deser, xid, caseSensitive_)

\* Mutant: the bound check is off by one (>), so that procedure 22 reads the
\* entry past the end of the table, an entry without a handler.
dispatchRpc_OffByOne(deser, xid, progNumber, progVersion, procNumber, caseSensitive_) ==
  IF progNumber # kNfsdProgNumber
  THEN << Write(serializeReply("PROG_UNAVAIL", xid)), Fulfil >>
  ELSE IF progVersion # kNfsd3ProgVersion
       THEN << Write(serializeReply("PROG_MISMATCH", xid)),
               Write(mismatch_info(kNfsd3ProgVersion, kNfsd3ProgVersion)),
               Fulfil >>
       ELSE IF procNumber > kNumHandlers
            THEN << Write(serializeReply("PROC_UNAVAIL", xid)), Fulfil >>
            ELSE LET handlerEntry == IF procNumber \in DOMAIN kNfs3dHandlers
                                     THEN kNfs3dHandlers[procNumber]
                                     ELSE HandlerEntry IN
                 << Invoke(procNumber, handlerEntry) >> \o
                 CallHandler(handlerEntry.handler, deser, xid, caseSensitive_)

dispatchRpc(deser, xid, progNumber, progVersion, procNumber, caseSensitive_) ==
  IF progNumber # kNfsdProgNumber
  THEN << Write(serializeReply("PROG_UNAVAIL", xid)), Fulfil >>
  ELSE IF progVersion # kNfsd3ProgVersion
       THEN << Write(serializeReply("PROG_MISMATCH", xid)),
               Write(mismatch_info(kNfsd3ProgVersion, kNfsd3ProgVersion)),
               Fulfil >>
       ELSE IF procNumber >= kNumHandlers
            THEN << Write(serializeReply("PROC_UNAVAIL", xid)), Fulfil >>
            ELSE LET handlerEntry == kNfs3dHandlers[procNumber] IN
                 << Invoke(procNumber, handlerEntry) >> \o
                 CallHandler(handlerEntry.handler, deser, xid, caseSensitive_)

\* The continuation that the handler of request r attached to its dispatcher
\* futures, run by the completion of call k.
Continuation(r, cs, k) ==
  LET handler == kNfs3dHandlers[r.proc].handler IN
  CASE handler = "getattr" -> getattrThen(cs[k].res[1])
    [] handler = "lookup" -> lookupThen(r.deser, cs, k)
    [] handler = "access" -> accessThen(r.deser, cs[k].res[1])
    [] handler = "readlink" -> readlinkThen(cs)
    [] handler = "write" -> writeThen(cs[k].res[1])
    [] handler = "create" -> createThen(r.deser, cs[k].res[1])
    [] handler = "mkdir" -> mkdirThen(cs[k].res[1])
    [] handler = "link" -> linkThen(cs[k].res[1])
    [] handler = "fsstat" -> fsstatThen(r.deser, cs, k)

(***************************************************************************)
(* The state.                                                              *)
(*   caseSensitive  Nfsd3ServerProcessor::caseSensitive_                    *)
(*   req[i]         the arguments of the i-th dispatchRpc call, None before *)
(*   ser[i]         the items appended to its reply sink                    *)
(*   calls[i]       the dispatcher calls it issued, with their outcomes     *)
(*   pc[i]          "idle": not called yet; "pending": dispatchRpc returned *)
(*                  a future that is not fulfilled; "done": the future is   *)
(*                  fulfilled; "threw": an exception left dispatchRpc       *)
(*   log[i]         everything it did, in order                             *)
(*   destroyed      the Nfsd3 object has been destroyed                     *)
(*   stopPromise    Nfsd3::stopPromise_: None until it is given a value     *)
(*   attrIn         the folly::Try<struct stat> handed to the attribute     *)
(*                  conversions when they are run on their own, else None   *)
(*   attrOut        what statToFattr3 and statToPostOpAttr returned for it, *)
(*                  None for a conversion that has not run                  *)
(***************************************************************************)
VARIABLES caseSensitive, req, ser, calls, pc, log, destroyed, stopPromise,
          attrIn, attrOut

vars == << caseSensitive, req, ser, calls, pc, log, destroyed, stopPromise,
           attrIn, attrOut >>

NoAttrOut == [fattr |-> None, post |-> None]

\* Nfsd3::StopData{}: a structure without fields.
StopData == [fields |-> {}]

InitFor(slots) ==
  /\ caseSensitive \in BOOLEAN
  /\ destroyed = FALSE
  /\ stopPromise = None
  /\ attrIn = None
  /\ attrOut = NoAttrOut
  /\ req = [i \in slots |-> None]
  /\ ser = [i \in slots |-> << >>]
  /\ calls = [i \in slots |-> << >>]
  /\ pc = [i \in slots |-> "idle"]
  /\ log = [i \in slots |-> << >>]

Init == InitFor({1})

IsWrite(ev) == ev.e = "write"
IsIssue(ev) == ev.e = "issue"

RECURSIVE Items(_)
Items(effects) ==
  IF effects = << >> THEN << >>
  ELSE (IF IsWrite(Head(effects)) THEN << Head(effects).item >> ELSE << >>)
       \o Items(Tail(effects))

RECURSIVE Issued(_)
Issued(effects) ==
  IF effects = << >> THEN << >>
  ELSE (IF IsIssue(Head(effects))
        THEN << [op |-> Head(effects).op, args |-> Head(effects).args, res |-> None] >>
        ELSE << >>)
       \o Issued(Tail(effects))

Has(effects, kind) == \E n \in DOMAIN effects : effects[n].e = kind

\* The effects of one run of the handler's code on slot i, cs being the
\* dispatcher calls of the slot as that run found them.
Apply(i, cs, effects) ==
  /\ ser' = [ser EXCEPT ![i] = @ \o Items(effects)]
  /\ calls' = [calls EXCEPT ![i] = cs \o Issued(effects)]
  /\ log' = [log EXCEPT ![i] = @ \o effects]
  /\ pc' = [pc EXCEPT ![i] = IF Has(effects, "throw") THEN "threw"
                             ELSE IF Has(effects, "fulfil") THEN "done"
                             ELSE @]

\* The transport calls dispatchRpc with request r.
DispatchRpc(i, r) ==
  /\ pc[i] = "idle"
  /\ req' = [req EXCEPT ![i] = Some(r)]
  /\ LET effects == dispatchRpc(r.deser, r.xid, r.prog, r.progVer, r.proc,
                                caseSensitive)
         started == [e |-> "dispatch"]
     IN /\ ser' = [ser EXCEPT ![i] = Items(effects)]
        /\ calls' = [calls EXCEPT ![i] = Issued(effects)]
        /\ log' = [log EXCEPT ![i] = << started >> \o effects]
        /\ pc' = [pc EXCEPT ![i] = IF Has(effects, "throw") THEN "threw"
                                   ELSE IF Has(effects, "fulfil") THEN "done"
                                   ELSE "pending"]
  /\ UNCHANGED << caseSensitive, destroyed, stopPromise, attrIn, attrOut >>

\* Mutant: the continuations write to one reply sink shared by the requests.
Complete_SharedSink(i, k, t) ==
  /\ k \in DOMAIN calls[i]
  /\ calls[i][k].res = None
  /\ LET cs == [calls[i] EXCEPT ![k].res = Some(t)]
         completed == [e |-> "complete", k |-> k, ok |-> t.ok]
         effects == << completed >> \o Continuation(req[i][1], cs, k)
     IN /\ ser' = [ser EXCEPT ![1] = @ \o Items(effects)]
        /\ calls' = [calls EXCEPT ![i] = cs \o Issued(effects)]
        /\ log' = [log EXCEPT ![i] = @ \o effects]
        /\ pc' = [pc EXCEPT ![i] = IF Has(effects, "fulfil") THEN "done" ELSE @]
  /\ UNCHANGED << caseSensitive, req, destroyed, stopPromise, attrIn, attrOut >>

\* The dispatcher fulfils the future of call k of slot i with t, which runs
\* the continuations attached to it.
Complete(i, k, t) ==
  /\ k \in DOMAIN calls[i]
  /\ calls[i][k].res = None
  /\ LET cs == [calls[i] EXCEPT ![k].res = Some(t)]
         completed == [e |-> "complete", k |-> k, ok |-> t.ok]
     IN Apply(i, cs, << completed >> \o Continuation(req[i][1], cs, k))
  /\ UNCHANGED << caseSensitive, req, destroyed, stopPromise, attrIn, attrOut >>

\* Slot i is the next dispatchRpc call of a server that is still there: the
\* slots are numbered in the order of the calls.
NextCall(i) ==
  /\ ~destroyed
  /\ pc[i] = "idle"
  /\ \A j \in DOMAIN pc : j < i => pc[j] # "idle"

\* The transport calls dispatchRpc.
Dispatch ==
  \E i \in DOMAIN pc :
    /\ NextCall(i)
    /\ \E r \in Requests : DispatchRpc(i, r)

\* A pending dispatcher future is fulfilled with a value.
CompleteValue ==
  \E i \in DOMAIN pc :
    \E k \in DOMAIN calls[i] :
      /\ calls[i][k].res = None
      /\ \E v \in DispatcherValues(calls[i][k].op) : Complete(i, k, Value(v))

\* A pending dispatcher future is fulfilled with an error.
CompleteError ==
  \E i \in DOMAIN pc :
    \E k \in DOMAIN calls[i] :
      /\ calls[i][k].res = None
      /\ \E e \in AllErrors : Complete(i, k, Exception(e))

\* Mutant: the destructor forgets the stop promise.
Destroy_NoSignal ==
  /\ ~destroyed
  /\ destroyed' = TRUE
  /\ UNCHANGED << stopPromise, caseSensitive, req, ser, calls, pc, log,
                  attrIn, attrOut >>

\* Nfsd3::~Nfsd3: stopPromise_.setValue(StopData{}), whatever the requests
\* in flight are doing.  An object is destroyed once.
Destroy ==
  /\ ~destroyed
  /\ destroyed' = TRUE
  /\ stopPromise' = Some(StopData)
  /\ UNCHANGED << caseSensitive, req, ser, calls, pc, log, attrIn, attrOut >>

Next == Dispatch \/ CompleteValue \/ CompleteError \/ Destroy

Spec == Init /\ [][Next]_vars

(***************************************************************************)
(* Several requests in flight on one dispatcher: MaxSlots dispatchRpc      *)
(* calls, GETATTR and LOOKUP requests, whose dispatcher calls complete in  *)
(* any order.  Request i carries xid i.                                    *)
(***************************************************************************)
ConcRequests(i) ==
  { [ xid |-> i, prog |-> kNfsdProgNumber, progVer |-> kNfsd3ProgVersion,
      proc |-> nfsv3Procs.getattr, deser |-> d ] :
        d \in [ok : {TRUE}, object : Inodes] }
  \cup
  { [ xid |-> i, prog |-> kNfsdProgNumber, progVer |-> kNfsd3ProgVersion,
      proc |-> nfsv3Procs.lookup, deser |-> d ] :
        d \in [ok : {TRUE}, dir : Inodes, name : {"a"}] }

ConcValues(op) ==
  CASE op = "getattr" -> { MkStat(S_IFDIR + 493, 1) }
    [] op = "lookup" -> { << 1, MkStat(S_IFREG + kDefaultFilePerm, 1) >> }

ConcErrors == { SystemError("generic", "ENOENT") }

InitConc == InitFor(1..MaxSlots)

DispatchConc ==
  \E i \in DOMAIN pc :
    /\ NextCall(i)
    /\ \E r \in ConcRequests(i) : DispatchRpc(i, r)

CompleteValueConc ==
  \E i \in DOMAIN pc :
    \E k \in DOMAIN calls[i] :
      /\ calls[i][k].res = None
      /\ \E v \in ConcValues(calls[i][k].op) : Complete(i, k, Value(v))

CompleteErrorConc ==
  \E i \in DOMAIN pc :
    \E k \in DOMAIN calls[i] :
      /\ calls[i][k].res = None
      /\ \E e \in ConcErrors : Complete(i, k, Exception(e))

NextConc == DispatchConc \/ CompleteValueConc \/ CompleteErrorConc

SpecConc == InitConc /\ [][NextConc]_vars

\* The dispatcher completes every call it was given: a pending dispatcher
\* future is eventually fulfilled, with a value or with an error.
DispatcherCompletes == WF_vars(CompleteValue \/ CompleteError)

SpecLive == Init /\ [][Next]_vars /\ DispatcherCompletes

(***************************************************************************)
(* One LOOKUP or READLINK request run twice, run 1 and run 2 being two     *)
(* dispatchRpc calls with arguments drawn from the same set, whose         *)
(* dispatcher calls complete in any order with any of the outcomes.        *)
(***************************************************************************)
Runs == {1, 2}

OrderRequests ==
  { [ xid |-> 1, prog |-> kNfsdProgNumber, progVer |-> kNfsd3ProgVersion,
      proc |-> nfsv3Procs.lookup, deser |-> d ] :
        d \in [ok : {TRUE}, dir : {1}, name : {".", "..", "a"}] }
  \cup
  { [ xid |-> 1, prog |-> kNfsdProgNumber, progVer |-> kNfsd3ProgVersion,
      proc |-> nfsv3Procs.readlink, deser |-> d ] :
        d \in [ok : {TRUE}, symlink : {1}] }

OrderValues(op) ==
  CASE op = "getattr" -> { MkStat(S_IFDIR + 493, 1) }
    [] op = "getParent" -> { 2 }
    [] op = "lookup" -> { << 2, MkStat(S_IFREG + kDefaultFilePerm, 2) >> }
    [] op = "readlink" -> Links

OrderErrors == { SystemError("generic", "ENOENT"), SystemError("generic", "EACCES") }

InitOrder == InitFor(Runs)

DispatchOrder ==
  \E i \in DOMAIN pc :
    /\ NextCall(i)
    /\ \E r \in OrderRequests : DispatchRpc(i, r)

CompleteValueOrder ==
  \E i \in DOMAIN pc :
    \E k \in DOMAIN calls[i] :
      /\ calls[i][k].res = None
      /\ \E v \in OrderValues(calls[i][k].op) : Complete(i, k, Value(v))

CompleteErrorOrder ==
  \E i \in DOMAIN pc :
    \E k \in DOMAIN calls[i] :
      /\ calls[i][k].res = None
      /\ \E e \in OrderErrors : Complete(i, k, Exception(e))

NextOrder == DispatchOrder \/ CompleteValueOrder \/ CompleteErrorOrder

SpecOrder == InitOrder /\ [][NextOrder]_vars

(***************************************************************************)
(* The attribute conversions on their own: statToFattr3 and                *)
(* statToPostOpAttr applied to the result of an attribute fetch.           *)
(***************************************************************************)
InitAttr ==
  /\ caseSensitive \in BOOLEAN
  /\ destroyed = FALSE
  /\ stopPromise = None
  /\ attrIn \in { Some(t) : t \in AttrTries }
  /\ attrOut = NoAttrOut
  /\ req = [i \in {1} |-> None]
  /\ ser = [i \in {1} |-> << >>]
  /\ calls = [i \in {1} |-> << >>]
  /\ pc = [i \in {1} |-> "idle"]
  /\ log = [i \in {1} |-> << >>]

\* statToFattr3(stat.value()) is called on a fetch that succeeded.
StatToFattr3 ==
  /\ attrIn # None /\ attrIn[1].ok
  /\ attrOut.fattr = None
  /\ attrOut' = [attrOut EXCEPT !.fattr = Some(statToFattr3(attrIn[1].v))]
  /\ UNCHANGED << caseSensitive, req, ser, calls, pc, log, destroyed,
                  stopPromise, attrIn >>

\* statToPostOpAttr(std::move(stat)) is called on the fetch.
StatToPostOpAttr ==
  /\ attrIn # None
  /\ attrOut.post = None
  /\ attrOut' = [attrOut EXCEPT !.post = Some(statToPostOpAttr(attrIn[1]))]
  /\ UNCHANGED << caseSensitive, req, ser, calls, pc, log, destroyed,
                  stopPromise, attrIn >>

NextAttr == StatToFattr3 \/ StatToPostOpAttr

SpecAttr == InitAttr /\ [][NextAttr]_vars

(***************************************************************************)
(* Vocabulary of the properties.                                           *)
(***************************************************************************)
Slots == DOMAIN pc

Dispatched(i) == pc[i] # "idle"

\* The request of a dispatched slot.
Rq(i) == req[i][1]

\* The request passes the program, version and procedure checks.
Routed(i) ==
  /\ Dispatched(i)
  /\ Rq(i).prog = kNfsdProgNumber
  /\ Rq(i).progVer = kNfsd3ProgVersion
  /\ Rq(i).proc < kNumHandlers

ImplementedProcs ==
  { "NULL", "GETATTR", "LOOKUP", "ACCESS", "READLINK", "WRITE", "CREATE",
    "MKDIR", "LINK", "FSSTAT", "FSINFO", "PATHCONF" }

UnavailableProcs ==
  { "SETATTR", "READ", "SYMLINK", "MKNOD", "REMOVE", "RMDIR", "RENAME",
    "READDIR", "READDIRPLUS", "COMMIT" }

\* The request is routed to procedure name (RFC 1813 numbering).
IsProc(i, name) == Routed(i) /\ ProcName(Rq(i).proc) = name

IsAcceptStat(it) == it.item = "accept_stat"
IsResult(it) == it.item = "result"

\* The NFS result unions slot i has written.
ResultsOf(i) == SelectSeq(ser[i], IsResult)

LogHas(i, kind) == \E n \in DOMAIN log[i] : log[i][n].e = kind

\* Slot i has replied: its future is fulfilled and one result union is written.
Replied(i) == pc[i] = "done" /\ Len(ResultsOf(i)) = 1

TheResult(i) == ResultsOf(i)[1]

\* The outcome of the k-th dispatcher call of slot i.
Finished(i, k) == k \in DOMAIN calls[i] /\ calls[i][k].res # None
Failed(i, k) == Finished(i, k) /\ ~calls[i][k].res[1].ok
Succeeded(i, k) == Finished(i, k) /\ calls[i][k].res[1].ok
Outcome(i, k) ==
  IF calls[i][k].res[1].ok THEN calls[i][k].res[1].v ELSE calls[i][k].res[1].e

\* Every dispatcher call in the log comes after the write of the accept_stat.
AcceptBeforeIssue(i) ==
  \A n \in DOMAIN log[i] :
    log[i][n].e = "issue" =>
      \E m \in 1..(n - 1) :
        log[i][m].e = "write" /\ IsAcceptStat(log[i][m].item)

(***************************************************************************)
(* C1: every dispatchRpc call with well-formed arguments writes exactly    *)
(* one accept_stat, as the first item of the reply sink, and at most one   *)
(* body after it; for the implemented procedures it is SUCCESS and it is   *)
(* written before any dispatcher call is issued, whatever the dispatcher   *)
(* returns later.                                                          *)
(***************************************************************************)
C1_OneAcceptStatFirst ==
  \A i \in Slots :
    (Dispatched(i) /\ Rq(i).deser.ok) =>
      /\ Len(ser[i]) \in {1, 2}
      /\ IsAcceptStat(ser[i][1])
      /\ \A n \in 2..Len(ser[i]) : ~IsAcceptStat(ser[i][n])
      /\ (Routed(i) /\ ProcName(Rq(i).proc) \in ImplementedProcs) =>
           /\ ser[i][1] = serializeReply("SUCCESS", Rq(i).xid)
           /\ AcceptBeforeIssue(i)

\* A request of an implemented procedure whose dispatcher call failed and
\* whose reply carries an NFS error status after the SUCCESS accept_stat.
C1_Witness ==
  \E i \in Slots :
    /\ IsProc(i, "GETATTR")
    /\ Failed(i, 1)
    /\ Replied(i)
    /\ TheResult(i).status # "NFS3_OK"
    /\ ser[i][1].stat = "SUCCESS"

(***************************************************************************)
(* C2: a request for another program is answered with PROG_UNAVAIL and     *)
(* nothing else, whatever its version and procedure; no handler runs,      *)
(* nothing is deserialized, no dispatcher call is made and the future is   *)
(* fulfilled when dispatchRpc returns.                                     *)
(***************************************************************************)
C2_ProgUnavail ==
  \A i \in Slots :
    (Dispatched(i) /\ Rq(i).prog # kNfsdProgNumber) =>
      /\ ser[i] = << serializeReply("PROG_UNAVAIL", Rq(i).xid) >>
      /\ pc[i] = "done"
      /\ calls[i] = << >>
      /\ ~LogHas(i, "invoke")
      /\ ~LogHas(i, "deserialize")
      /\ ~LogHas(i, "issue")

\* A foreign program with a wrong version and an invalid procedure number.
C2_Witness ==
  \E i \in Slots :
    /\ Dispatched(i)
    /\ Rq(i).prog # kNfsdProgNumber
    /\ Rq(i).progVer # kNfsd3ProgVersion
    /\ Rq(i).proc >= kNumHandlers
    /\ pc[i] = "done"

(***************************************************************************)
(* C3: a request for the NFS program in a version other than 3 is answered *)
(* with PROG_MISMATCH followed by mismatch_info{3, 3}, whatever its        *)
(* procedure number; no handler runs and no dispatcher call is made.       *)
(***************************************************************************)
C3_ProgMismatch ==
  \A i \in Slots :
    (Dispatched(i) /\ Rq(i).prog = kNfsdProgNumber
       /\ Rq(i).progVer # kNfsd3ProgVersion) =>
      /\ ser[i] = << serializeReply("PROG_MISMATCH", Rq(i).xid),
                     [item |-> "mismatch_info", low |-> 3, high |-> 3] >>
      /\ calls[i] = << >>
      /\ ~LogHas(i, "invoke")
      /\ ~LogHas(i, "issue")

\* A wrong version together with an invalid procedure number.
C3_Witness ==
  \E i \in Slots :
    /\ Dispatched(i)
    /\ Rq(i).prog = kNfsdProgNumber
    /\ Rq(i).progVer = kNfsd3ProgVersion + 1
    /\ Rq(i).proc >= kNumHandlers
    /\ Len(ser[i]) = 2

(***************************************************************************)
(* C4: a procedure number of 22 or more is answered with exactly the       *)
(* accept_stat PROC_UNAVAIL and the handler table is not indexed; for a    *)
(* procedure number in 0..21 the entry that is indexed holds a handler.    *)
(***************************************************************************)
C4_ProcUnavail ==
  \A i \in Slots :
    (Dispatched(i) /\ Rq(i).prog = kNfsdProgNumber
       /\ Rq(i).progVer = kNfsd3ProgVersion) =>
      /\ Rq(i).proc >= 22 =>
           /\ ser[i] = << serializeReply("PROC_UNAVAIL", Rq(i).xid) >>
           /\ ~LogHas(i, "invoke")
      /\ Rq(i).proc \in 0..21 =>
           \E n \in DOMAIN log[i] :
             /\ log[i][n].e = "invoke"
             /\ log[i][n].proc = Rq(i).proc
             /\ log[i][n].handler # "nullptr"
             /\ log[i][n].name = ProcName(Rq(i).proc)

\* Procedure 22, the first number past the table, is dispatched.
C4_Witness ==
  \E i \in Slots :
    /\ Dispatched(i)
    /\ Rq(i).prog = kNfsdProgNumber
    /\ Rq(i).progVer = kNfsd3ProgVersion
    /\ Rq(i).proc = 22
    /\ pc[i] = "done"

(***************************************************************************)
(* C5: each of SETATTR, READ, SYMLINK, MKNOD, REMOVE, RMDIR, RENAME,       *)
(* READDIR, READDIRPLUS and COMMIT is answered with exactly the            *)
(* accept_stat PROC_UNAVAIL, whatever the arguments; they are not          *)
(* deserialized and the dispatcher is not called.                          *)
(***************************************************************************)
C5_UnavailableProcs ==
  \A i \in Slots :
    (Routed(i) /\ ProcName(Rq(i).proc) \in UnavailableProcs) =>
      /\ ser[i] = << serializeReply("PROC_UNAVAIL", Rq(i).xid) >>
      /\ pc[i] = "done"
      /\ calls[i] = << >>
      /\ ~LogHas(i, "deserialize")
      /\ ~LogHas(i, "issue")

\* RENAME with arguments that do not decode.
C5_Witness ==
  \E i \in Slots :
    /\ IsProc(i, "RENAME")
    /\ ~Rq(i).deser.ok
    /\ pc[i] = "done"

(***************************************************************************)
(* The Error Map as the specification tabulates it: errno to nfsstat3.     *)
(***************************************************************************)
ErrnoTable ==
  [ EPERM |-> "NFS3ERR_PERM", ENOENT |-> "NFS3ERR_NOENT", EIO |-> "NFS3ERR_IO",
    ETXTBSY |-> "NFS3ERR_IO", ENXIO |-> "NFS3ERR_NXIO", EACCES |-> "NFS3ERR_ACCES",
    EEXIST |-> "NFS3ERR_EXIST", EXDEV |-> "NFS3ERR_XDEV", ENODEV |-> "NFS3ERR_NODEV",
    ENOTDIR |-> "NFS3ERR_NOTDIR", EISDIR |-> "NFS3ERR_ISDIR",
    EINVAL |-> "NFS3ERR_INVAL", EFBIG |-> "NFS3ERR_FBIG", EROFS |-> "NFS3ERR_ROFS",
    EMLINK |-> "NFS3ERR_MLINK", ENAMETOOLONG |-> "NFS3ERR_NAMETOOLONG",
    ENOTEMPTY |-> "NFS3ERR_NOTEMPTY", EDQUOT |-> "NFS3ERR_DQUOT",
    ESTALE |-> "NFS3ERR_STALE", ETIMEDOUT |-> "NFS3ERR_JUKEBOX",
    EAGAIN |-> "NFS3ERR_JUKEBOX", ENOMEM |-> "NFS3ERR_JUKEBOX",
    ENOTSUP |-> "NFS3ERR_NOTSUPP" ]

ReferenceStatus(ex) ==
  IF ex.type = "std::system_error" /\ ex.category = "generic"
  THEN IF ex.code \in DOMAIN ErrnoTable THEN ErrnoTable[ex.code]
       ELSE "NFS3ERR_SERVERFAULT"
  ELSE IF ex.type = "folly::FutureTimeout" THEN "NFS3ERR_JUKEBOX"
       ELSE "NFS3ERR_SERVERFAULT"

(***************************************************************************)
(* C6: exceptionToNfsError agrees with the reference table on every error  *)
(* value: the listed errnos, ENFILE and the unlisted errnos, a system      *)
(* error that is no errno error, a future timeout and any other error;     *)
(* it never yields NFS3_OK.                                                *)
(***************************************************************************)
C6_ErrorMap ==
  \A i \in Slots :
    \A k \in DOMAIN calls[i] :
      Failed(i, k) =>
        /\ exceptionToNfsError(Outcome(i, k)) = ReferenceStatus(Outcome(i, k))
        /\ exceptionToNfsError(Outcome(i, k)) # "NFS3_OK"

\* A dispatcher call failed with a system error of a foreign category whose
\* code has the number of EEXIST.
C6_Witness ==
  \E i \in Slots :
    /\ Failed(i, 1)
    /\ Outcome(i, 1) = SystemError("other", "EEXIST")
    /\ exceptionToNfsError(Outcome(i, 1)) = "NFS3ERR_SERVERFAULT"

(***************************************************************************)
(* C7.                                                                     *)
(***************************************************************************)
CallingProcs ==
  { "GETATTR", "LOOKUP", "ACCESS", "READLINK", "WRITE", "CREATE", "MKDIR",
    "LINK", "FSSTAT" }

IsErrno(ex) == ex.type = "std::system_error" /\ ex.category = "generic"

\* C7 as claimed: in every implemented procedure that calls the dispatcher,
\* each dispatcher call of the request that failed with an errno decides the
\* status of the reply through the Error Map.
C7_EveryFailureDecidesStatus ==
  \A i \in Slots :
    (Routed(i) /\ ProcName(Rq(i).proc) \in CallingProcs /\ Replied(i)) =>
      \A k \in DOMAIN calls[i] :
        (Failed(i, k) /\ IsErrno(Outcome(i, k))) =>
          TheResult(i).status = exceptionToNfsError(Outcome(i, k))

\* The dispatcher calls whose failure is the failure of the procedure: the
\* name resolution of LOOKUP, readlink of READLINK, statfs of FSSTAT, the one
\* call of GETATTR, ACCESS, WRITE, CREATE and MKDIR, and none of LINK.
PrimaryCalls(i) ==
  LET name == ProcName(Rq(i).proc) IN
  { k \in DOMAIN calls[i] :
      CASE name = "LOOKUP" -> k >= 2
        [] name = "READLINK" -> calls[i][k].op = "readlink"
        [] name = "FSSTAT" -> calls[i][k].op = "statfs"
        [] name = "LINK" -> FALSE
        [] OTHER -> TRUE }

FailedPrimary(i) == { k \in PrimaryCalls(i) : Failed(i, k) }

(***************************************************************************)
(* C7, amended: in every reply of a request that called the dispatcher,    *)
(* the status is decided by the procedure's primary dispatcher call.  When *)
(* that call fails with error e the status is the Error Map result for e,  *)
(* except for CREATE with how = UNCHECKED and errno EEXIST, which replies   *)
(* NFS3_OK; when it succeeds the status is NFS3_OK whatever the            *)
(* accompanying attribute getattr returned.  LINK always replies           *)
(* NFS3ERR_NOTSUPP and LOOKUP with a name longer than NAME_MAX always      *)
(* replies NFS3ERR_NAMETOOLONG, whatever their getattr returned.           *)
(***************************************************************************)
C7_PrimaryFailureDecidesStatus ==
  \A i \in Slots :
    (Routed(i) /\ ProcName(Rq(i).proc) \in CallingProcs /\ Replied(i)
       /\ calls[i] # << >>) =>
      LET name == ProcName(Rq(i).proc)
          status == TheResult(i).status
      IN IF name = "LINK" THEN status = "NFS3ERR_NOTSUPP"
         ELSE IF name = "LOOKUP" /\ Len(Rq(i).deser.name) > NAME_MAX
              THEN status = "NFS3ERR_NAMETOOLONG"
         ELSE IF FailedPrimary(i) = {}
              THEN status = "NFS3_OK"
              ELSE \A k \in FailedPrimary(i) :
                     IF name = "CREATE" /\ Rq(i).deser.how = "UNCHECKED"
                        /\ Outcome(i, k) = SystemError("generic", "EEXIST")
                     THEN status = "NFS3_OK"
                     ELSE status = exceptionToNfsError(Outcome(i, k))

\* READLINK where readlink failed with one errno and getattr with another.
C7_Witness ==
  \E i \in Slots :
    /\ IsProc(i, "READLINK")
    /\ Replied(i)
    /\ Failed(i, 1) /\ Outcome(i, 1) = SystemError("generic", "ESTALE")
    /\ Failed(i, 2) /\ Outcome(i, 2) = SystemError("generic", "EACCES")
    /\ TheResult(i).status = "NFS3ERR_ACCES"

(***************************************************************************)
(* C8, as claimed: a handler whose argument deserialization fails does not *)
(* raise out of dispatchRpc; it completes normally and its reply carries   *)
(* the status NFS3ERR_SERVERFAULT.                                         *)
(***************************************************************************)
C8_MalformedArgsServerFault ==
  \A i \in Slots :
    (Routed(i) /\ LogHas(i, "deserialize") /\ ~Rq(i).deser.ok) =>
      /\ pc[i] = "done"
      /\ Len(ResultsOf(i)) = 1
      /\ TheResult(i).status = "NFS3ERR_SERVERFAULT"

(***************************************************************************)
(* C9: every failure reply of CREATE, MKDIR and WRITE (a dispatcher        *)
(* failure of any kind, CREATE with how = EXCLUSIVE, MKDIR of a reserved   *)
(* name) carries a wcc_data whose pre-op and post-op sides are both        *)
(* absent.                                                                 *)
(***************************************************************************)
C9_FailureCarriesEmptyWcc ==
  \A i \in Slots :
    \A n \in DOMAIN ser[i] :
      (IsResult(ser[i][n]) /\ ser[i][n].proc \in {"CREATE", "MKDIR", "WRITE"}
         /\ ser[i][n].status # "NFS3_OK") =>
        LET body == ser[i][n].body
            field == IF ser[i][n].proc = "WRITE" THEN "file_wcc" ELSE "dir_wcc"
        IN /\ field \in DOMAIN body
           /\ body[field].before = None
           /\ body[field].after = None

\* A GUARDED CREATE that the dispatcher failed with EEXIST.
C9_Witness ==
  \E i \in Slots :
    /\ IsProc(i, "CREATE")
    /\ Rq(i).deser.ok /\ Rq(i).deser.how = "GUARDED"
    /\ Failed(i, 1) /\ Outcome(i, 1) = SystemError("generic", "EEXIST")
    /\ Replied(i)
    /\ TheResult(i).status = "NFS3ERR_EXIST"

(***************************************************************************)
(* C10: LOOKUP of "." in directory D calls neither dispatcher.lookup nor   *)
(* dispatcher.getParent; it resolves the object by getattr(D), and when    *)
(* that getattr succeeds the reply is NFS3_OK with the file handle D and   *)
(* the object attributes converted from the stat that getattr returned.    *)
(***************************************************************************)
C10_LookupDot ==
  \A i \in Slots :
    (IsProc(i, "LOOKUP") /\ Rq(i).deser.ok /\ Rq(i).deser.name = ".") =>
      /\ Len(calls[i]) = 2
      /\ \A k \in DOMAIN calls[i] :
           /\ calls[i][k].op = "getattr"
           /\ calls[i][k].args.ino = Rq(i).deser.dir
      /\ (Replied(i) /\ Succeeded(i, 2)) =>
           /\ TheResult(i).status = "NFS3_OK"
           /\ TheResult(i).body.object = Rq(i).deser.dir
           /\ TheResult(i).body.obj_attributes = Some(statToFattr3(Outcome(i, 2)))

\* "." resolved to a stat that names another inode than D and differs from
\* the stat the directory getattr returned.
C10_Witness ==
  \E i \in Slots :
    /\ IsProc(i, "LOOKUP")
    /\ Rq(i).deser.ok /\ Rq(i).deser.name = "."
    /\ Replied(i)
    /\ Succeeded(i, 1) /\ Succeeded(i, 2)
    /\ Outcome(i, 2).st_ino # Rq(i).deser.dir
    /\ Outcome(i, 1) # Outcome(i, 2)

(***************************************************************************)
(* Positions in the history of a request.                                  *)
(***************************************************************************)
\* The position in log[i] of the issue of the k-th dispatcher call.
IssuePos(i, k) ==
  CHOOSE n \in DOMAIN log[i] :
    /\ log[i][n].e = "issue"
    /\ Cardinality({ m \in 1..n : log[i][m].e = "issue" }) = k

\* The position in log[i] of the completion of the k-th dispatcher call.
CompletePos(i, k) ==
  CHOOSE n \in DOMAIN log[i] : log[i][n].e = "complete" /\ log[i][n].k = k

(***************************************************************************)
(* C11: LOOKUP of ".." in directory D calls getParent(D) and never          *)
(* dispatcher.lookup; getattr on the parent is issued only once getParent  *)
(* has completed successfully, on the inode it returned.  When both        *)
(* succeed the reply is NFS3_OK with that inode as file handle and the     *)
(* attributes of that getattr.  When getParent fails no getattr on a       *)
(* parent is ever issued and the status is the mapped getParent error.     *)
(***************************************************************************)
C11_LookupDotDot ==
  \A i \in Slots :
    (IsProc(i, "LOOKUP") /\ Rq(i).deser.ok /\ Rq(i).deser.name = "..") =>
      /\ Len(calls[i]) \in {2, 3}
      /\ calls[i][2].op = "getParent"
      /\ calls[i][2].args.ino = Rq(i).deser.dir
      /\ \A k \in DOMAIN calls[i] : calls[i][k].op # "lookup"
      /\ Len(calls[i]) = 3 <=> Succeeded(i, 2)
      /\ Len(calls[i]) = 3 =>
           /\ calls[i][3].op = "getattr"
           /\ calls[i][3].args.ino = Outcome(i, 2)
           /\ IssuePos(i, 2) < CompletePos(i, 2)
           /\ CompletePos(i, 2) < IssuePos(i, 3)
      /\ (Replied(i) /\ Succeeded(i, 2)) =>
           /\ Finished(i, 3)
           /\ Succeeded(i, 3) =>
                /\ TheResult(i).status = "NFS3_OK"
                /\ TheResult(i).body.object = Outcome(i, 2)
                /\ TheResult(i).body.obj_attributes
                     = Some(statToFattr3(Outcome(i, 3)))
      /\ (Failed(i, 2) /\ Finished(i, 1)) =>
           /\ Replied(i)
           /\ TheResult(i).status = exceptionToNfsError(Outcome(i, 2))

\* ".." resolved to a parent other than D, after the directory getattr
\* had already completed.
C11_Witness ==
  \E i \in Slots :
    /\ IsProc(i, "LOOKUP")
    /\ Rq(i).deser.ok /\ Rq(i).deser.name = ".."
    /\ Replied(i)
    /\ Succeeded(i, 2) /\ Succeeded(i, 3)
    /\ Outcome(i, 2) # Rq(i).deser.dir
    /\ CompletePos(i, 1) < CompletePos(i, 2)
    /\ TheResult(i).body.object = Outcome(i, 2)

(***************************************************************************)
(* C12: LOOKUP of a name longer than NAME_MAX makes one dispatcher call,   *)
(* getattr(dir), and never lookup or getParent; it replies once that       *)
(* getattr has completed, always with NFS3ERR_NAMETOOLONG, and the         *)
(* directory post-op attributes of the failure body are present exactly    *)
(* when the getattr succeeded.                                             *)
(***************************************************************************)
C12_NameTooLong ==
  \A i \in Slots :
    (IsProc(i, "LOOKUP") /\ Rq(i).deser.ok /\ Len(Rq(i).deser.name) > NAME_MAX) =>
      /\ Len(calls[i]) = 1
      /\ calls[i][1].op = "getattr"
      /\ calls[i][1].args.ino = Rq(i).deser.dir
      /\ Finished(i, 1) <=> Replied(i)
      /\ Replied(i) =>
           /\ TheResult(i).status = "NFS3ERR_NAMETOOLONG"
           /\ DOMAIN TheResult(i).body = {"dir_attributes"}
           /\ TheResult(i).body.dir_attributes # None <=> Succeeded(i, 1)
           /\ Succeeded(i, 1) =>
                TheResult(i).body.dir_attributes = Some(statToFattr3(Outcome(i, 1)))

\* A name of NAME_MAX + 1 bytes whose directory getattr failed with ENOENT.
C12_Witness ==
  \E i \in Slots :
    /\ IsProc(i, "LOOKUP")
    /\ Rq(i).deser.ok /\ Len(Rq(i).deser.name) = NAME_MAX + 1
    /\ Failed(i, 1) /\ Outcome(i, 1) = SystemError("generic", "ENOENT")
    /\ Replied(i)
    /\ TheResult(i).status = "NFS3ERR_NAMETOOLONG"
    /\ TheResult(i).body.dir_attributes = None

(***************************************************************************)
(* C13: CREATE with how = EXCLUSIVE replies NFS3ERR_NOTSUPP with an empty  *)
(* wcc_data; dispatcher.create is not called, nor any other dispatcher     *)
(* operation, and the reply is complete when dispatchRpc returns.          *)
(***************************************************************************)
C13_CreateExclusive ==
  \A i \in Slots :
    (IsProc(i, "CREATE") /\ Rq(i).deser.ok /\ Rq(i).deser.how = "EXCLUSIVE") =>
      /\ calls[i] = << >>
      /\ ~LogHas(i, "issue")
      /\ pc[i] = "done"
      /\ ser[i] = << serializeReply("SUCCESS", Rq(i).xid),
                     Result("CREATE", "NFS3ERR_NOTSUPP", [dir_wcc |-> EmptyWcc]) >>

\* An EXCLUSIVE CREATE that carries a mode.
C13_Witness ==
  \E i \in Slots :
    /\ IsProc(i, "CREATE")
    /\ Rq(i).deser.ok /\ Rq(i).deser.how = "EXCLUSIVE"
    /\ Rq(i).deser.mode # None
    /\ Replied(i)
    /\ TheResult(i).status = "NFS3ERR_NOTSUPP"

(***************************************************************************)
(* C14: a CREATE whose dispatcher call failed replies NFS3_OK with the     *)
(* file handle, the object attributes and both wcc sides absent when how   *)
(* is UNCHECKED and the failure is the errno EEXIST; it replies            *)
(* NFS3ERR_EXIST when how is GUARDED and the failure is the errno EEXIST;  *)
(* with UNCHECKED and any other failure the status is the mapped error.    *)
(***************************************************************************)
C14_CreateEexist ==
  \A i \in Slots :
    (IsProc(i, "CREATE") /\ Rq(i).deser.ok /\ Failed(i, 1)) =>
      LET e == Outcome(i, 1)
          how == Rq(i).deser.how
          eexist == e = SystemError("generic", "EEXIST")
      IN /\ Replied(i)
         /\ (how = "UNCHECKED" /\ eexist) =>
              /\ TheResult(i).status = "NFS3_OK"
              /\ TheResult(i).body =
                   [ obj |-> None, obj_attributes |-> None,
                     dir_wcc |-> [before |-> None, after |-> None] ]
         /\ (how = "GUARDED" /\ eexist) =>
              TheResult(i).status = "NFS3ERR_EXIST"
         /\ (how = "UNCHECKED" /\ ~eexist) =>
              /\ TheResult(i).status = ReferenceStatus(e)
              /\ TheResult(i).status # "NFS3_OK"

\* An UNCHECKED CREATE that the dispatcher failed with the errno EEXIST.
C14_Witness ==
  \E i \in Slots :
    /\ IsProc(i, "CREATE")
    /\ Rq(i).deser.ok /\ Rq(i).deser.how = "UNCHECKED"
    /\ Failed(i, 1) /\ Outcome(i, 1) = SystemError("generic", "EEXIST")
    /\ Replied(i)
    /\ TheResult(i).status = "NFS3_OK"
    /\ TheResult(i).body.obj = None

(***************************************************************************)
(* C15: MKDIR of "." or ".." replies NFS3ERR_EXIST when dispatchRpc         *)
(* returns, without any dispatcher call.  For every other name             *)
(* dispatcher.mkdir is called exactly once, in the directory and with the  *)
(* name of the request, with mode S_IFDIR|0751 (16384 + 489) when the      *)
(* request carries no mode and with the request's mode otherwise.          *)
(***************************************************************************)
C15_MkdirReservedAndMode ==
  \A i \in Slots :
    (IsProc(i, "MKDIR") /\ Rq(i).deser.ok) =>
      LET args == Rq(i).deser IN
      IF args.name \in {".", ".."}
      THEN /\ calls[i] = << >>
           /\ ~LogHas(i, "issue")
           /\ pc[i] = "done"
           /\ Len(ResultsOf(i)) = 1
           /\ TheResult(i).status = "NFS3ERR_EXIST"
      ELSE /\ Len(calls[i]) = 1
           /\ calls[i][1].op = "mkdir"
           /\ calls[i][1].args.dir = args.dir
           /\ calls[i][1].args.name = args.name
           /\ calls[i][1].args.mode =
                (IF args.mode = None THEN 16384 + 489 ELSE args.mode[1])

\* MKDIR of ".." without a mode is refused.
C15_Witness ==
  \E i \in Slots :
    /\ IsProc(i, "MKDIR")
    /\ Rq(i).deser.ok
    /\ Rq(i).deser.name = ".."
    /\ Rq(i).deser.mode = None
    /\ Replied(i)
    /\ TheResult(i).status = "NFS3ERR_EXIST"

(***************************************************************************)
(* C16: LINK calls getattr on the source file and nothing else; once that  *)
(* getattr has completed, with a value or an error, the reply is           *)
(* NFS3ERR_NOTSUPP, its source post-op attributes are present exactly when *)
(* the getattr succeeded, and its wcc_data has both sides absent.          *)
(***************************************************************************)
C16_LinkNotSupp ==
  \A i \in Slots :
    (IsProc(i, "LINK") /\ Rq(i).deser.ok) =>
      /\ Len(calls[i]) = 1
      /\ calls[i][1].op = "getattr"
      /\ calls[i][1].args.ino = Rq(i).deser.file
      /\ Finished(i, 1) <=> Replied(i)
      /\ Replied(i) =>
           /\ TheResult(i).status = "NFS3ERR_NOTSUPP"
           /\ TheResult(i).body.file_attributes # None <=> Succeeded(i, 1)
           /\ Succeeded(i, 1) =>
                TheResult(i).body.file_attributes
                  = Some(statToFattr3(Outcome(i, 1)))
           /\ TheResult(i).body.linkdir_wcc = [before |-> None, after |-> None]

\* LINK whose getattr failed with ENOENT.
C16_Witness ==
  \E i \in Slots :
    /\ IsProc(i, "LINK")
    /\ Failed(i, 1) /\ Outcome(i, 1) = SystemError("generic", "ENOENT")
    /\ Replied(i)
    /\ TheResult(i).status = "NFS3ERR_NOTSUPP"
    /\ TheResult(i).body.file_attributes = None

(***************************************************************************)
(* C17, as claimed: when the dispatcher completes every call it is given,  *)
(* every request dispatched with arguments that decode eventually has its  *)
(* future fulfilled.  (A WRITE whose count exceeds the length of its data  *)
(* decodes, and IOBufQueue::split throws out of the handler.)              *)
(***************************************************************************)
C17_EveryRequestCompletes ==
  \A i \in {1} :
    (Dispatched(i) /\ Rq(i).deser.ok) ~> (pc[i] = "done")

(***************************************************************************)
(* C18: with several requests in flight on one dispatcher, in every        *)
(* interleaving of the completions, a step of one request leaves the reply *)
(* sink, the dispatcher calls and the future of every other request as     *)
(* they were, and the reply of a request is determined by its arguments    *)
(* and the results of its own dispatcher calls: two completed requests     *)
(* with the same procedure, arguments and call results carry the same      *)
(* result, whatever the other requests did in between.                     *)
(***************************************************************************)
SameInputs(i, j) ==
  /\ Rq(i).proc = Rq(j).proc
  /\ Rq(i).deser = Rq(j).deser
  /\ calls[i] = calls[j]

Determined ==
  \A i, j \in 1..MaxSlots :
    (pc[i] = "done" /\ pc[j] = "done" /\ SameInputs(i, j)) =>
      /\ Len(ser[i]) = 2 /\ Len(ser[j]) = 2
      /\ ser[i][1] = serializeReply("SUCCESS", Rq(i).xid)
      /\ ser[j][1] = serializeReply("SUCCESS", Rq(j).xid)
      /\ ser[i][2] = ser[j][2]

OwnSinkOnly ==
  \A j \in 1..MaxSlots :
    log'[j] = log[j] =>
      /\ ser'[j] = ser[j]
      /\ calls'[j] = calls[j]
      /\ pc'[j] = pc[j]

C18_RequestsIsolated == [][OwnSinkOnly /\ Determined']_vars

\* The second request has replied while the first, dispatched before it,
\* still waits for the dispatcher: the replies complete out of order.  Both
\* are LOOKUPs of the same name in the same directory.
C18_Witness ==
  /\ pc[1] = "pending"
  /\ pc[2] = "done"
  /\ Rq(1).deser = Rq(2).deser
  /\ Rq(1).proc = nfsv3Procs.lookup
  /\ Finished(1, 2) /\ ~Finished(1, 1)
  /\ Finished(2, 1) /\ Finished(2, 2)
  /\ Len(ResultsOf(2)) = 1
  /\ Len(ResultsOf(1)) = 0

(***************************************************************************)
(* C19: the stop promise is unfulfilled until the Nfsd3 object is          *)
(* destroyed; the destructor fulfils it with an empty StopData in the very *)
(* step of the destruction, whatever state the requests are in and without *)
(* touching them; once fulfilled it is never fulfilled again or changed.   *)
(***************************************************************************)
StopStep ==
  /\ destroyed' <=> stopPromise' # None
  /\ destroyed => destroyed'
  /\ stopPromise' # stopPromise =>
       /\ stopPromise = None
       /\ stopPromise' = Some(StopData)
       /\ ~destroyed /\ destroyed'
       /\ pc' = pc /\ calls' = calls /\ ser' = ser
  /\ stopPromise # None => stopPromise' = stopPromise

C19_StopFulfilledOnce ==
  /\ (~destroyed /\ stopPromise = None)
  /\ [][StopStep]_vars

\* The server is destroyed while a request is waiting for the dispatcher.
C19_Witness ==
  /\ destroyed
  /\ stopPromise = Some(StopData)
  /\ \E i \in Slots :
       /\ pc[i] = "pending"
       /\ \E k \in DOMAIN calls[i] : calls[i][k].res = None

(***************************************************************************)
(* C20: FSINFO and PATHCONF make no dispatcher call; with arguments that   *)
(* decode they reply when dispatchRpc returns, and every result they write *)
(* is NFS3_OK with an absent post_op_attr and fixed values.  PATHCONF's    *)
(* case_insensitive is the negation of the caseSensitive flag, and no step *)
(* changes that flag, so all PATHCONF replies of a server are the same.    *)
(***************************************************************************)
FsinfoBody ==
  [ obj_attributes |-> << >>,
    rtmax |-> 1048576, rtpref |-> 1048576, rtmult |-> 1,
    wtmax |-> 1048576, wtpref |-> 1048576, wtmult |-> 1,
    dtpref |-> 1048576,
    maxfilesize |-> "UINT64_MAX",
    time_delta |-> [seconds |-> 0, nseconds |-> 1],
    properties |-> {"FSF3_SYMLINK", "FSF3_HOMOGENEOUS", "FSF3_CANSETTIME"} ]

PathconfBody(flag) ==
  [ obj_attributes |-> << >>,
    linkmax |-> 0,
    name_max |-> 255,
    no_trunc |-> TRUE,
    chown_restricted |-> TRUE,
    case_insensitive |-> ~flag,
    case_preserving |-> TRUE ]

StaticReplies ==
  \A i \in Slots :
    (IsProc(i, "FSINFO") \/ IsProc(i, "PATHCONF")) =>
      /\ calls[i] = << >>
      /\ ~LogHas(i, "issue")
      /\ Rq(i).deser.ok => Replied(i)
      /\ \A n \in DOMAIN ResultsOf(i) :
           /\ ResultsOf(i)[n].status = "NFS3_OK"
           /\ ResultsOf(i)[n].body =
                (IF IsProc(i, "FSINFO") THEN FsinfoBody
                 ELSE PathconfBody(caseSensitive))

C20_StaticReplies ==
  /\ StaticReplies
  /\ [][caseSensitive' = caseSensitive /\ StaticReplies']_vars

\* A PATHCONF reply of a server constructed with caseSensitive = FALSE.
C20_Witness ==
  \E i \in Slots :
    /\ IsProc(i, "PATHCONF")
    /\ ~caseSensitive
    /\ Replied(i)
    /\ TheResult(i).body.case_insensitive = TRUE
    /\ TheResult(i).body.obj_attributes = None

(***************************************************************************)
(* C21: in LOOKUP of a name of at most NAME_MAX bytes the directory        *)
(* getattr is issued before the name-resolution call (getattr for ".",     *)
(* getParent for "..", lookup otherwise); the result is written only after *)
(* the directory getattr and the name resolution have both completed, and  *)
(* it is written once they have, whichever completed first.                *)
(***************************************************************************)
\* The position in log[i] of the write of the result union.
ResultPos(i) ==
  CHOOSE n \in DOMAIN log[i] : log[i][n].e = "write" /\ IsResult(log[i][n].item)

LookupShort(i) ==
  /\ IsProc(i, "LOOKUP")
  /\ Rq(i).deser.ok
  /\ Len(Rq(i).deser.name) <= NAME_MAX

\* The name resolution of LOOKUP has an outcome: call 2 completed, and for
\* ".." the getattr on the parent that follows a successful getParent too.
NameResolved(i) ==
  /\ Finished(i, 2)
  /\ (Rq(i).deser.name = ".." /\ Succeeded(i, 2)) => Finished(i, 3)

C21_LookupJoin ==
  \A i \in Slots :
    LookupShort(i) =>
      /\ Len(calls[i]) >= 2
      /\ calls[i][1].op = "getattr"
      /\ calls[i][1].args.ino = Rq(i).deser.dir
      /\ calls[i][2].op = (IF Rq(i).deser.name = "." THEN "getattr"
                           ELSE IF Rq(i).deser.name = ".." THEN "getParent"
                           ELSE "lookup")
      /\ IssuePos(i, 1) < IssuePos(i, 2)
      /\ ResultsOf(i) # << >> =>
           /\ Finished(i, 1) /\ NameResolved(i)
           /\ \A k \in DOMAIN calls[i] :
                Finished(i, k) /\ CompletePos(i, k) < ResultPos(i)
      /\ (Finished(i, 1) /\ NameResolved(i)) => Replied(i)

\* The directory getattr and dispatcher.lookup are both outstanding.
C21_Witness ==
  \E i \in Slots :
    /\ LookupShort(i)
    /\ calls[i][2].op = "lookup"
    /\ calls[i][1].res = None /\ calls[i][2].res = None
    /\ pc[i] = "pending"

(***************************************************************************)
(* C22: in LOOKUP of a name of at most NAME_MAX bytes the name resolution  *)
(* alone decides the status.  When it failed the reply is the mapped error *)
(* with the failure body; when it succeeded the reply is NFS3_OK with the  *)
(* resolved file handle and the attributes of the object, also when the    *)
(* directory getattr failed.  In both cases the directory post-op          *)
(* attributes are present exactly when the directory getattr succeeded.    *)
(***************************************************************************)
\* The name resolution failed: call 2 did, or for ".." the getattr on the
\* parent.
NameFailed(i) ==
  \/ Failed(i, 2)
  \/ Rq(i).deser.name = ".." /\ Succeeded(i, 2) /\ Failed(i, 3)

NameError(i) == IF Failed(i, 2) THEN Outcome(i, 2) ELSE Outcome(i, 3)

\* The inode number and the stat a successful name resolution gave.
ResolvedIno(i) ==
  IF Rq(i).deser.name = "." THEN Rq(i).deser.dir
  ELSE IF Rq(i).deser.name = ".." THEN Outcome(i, 2)
  ELSE Outcome(i, 2)[1]

ResolvedStat(i) ==
  IF Rq(i).deser.name = "." THEN Outcome(i, 2)
  ELSE IF Rq(i).deser.name = ".." THEN Outcome(i, 3)
  ELSE Outcome(i, 2)[2]

C22_LookupStatus ==
  \A i \in Slots :
    (LookupShort(i) /\ Replied(i)) =>
      /\ NameFailed(i) =>
           /\ TheResult(i).status = exceptionToNfsError(NameError(i))
           /\ DOMAIN TheResult(i).body = {"dir_attributes"}
      /\ ~NameFailed(i) =>
           /\ TheResult(i).status = "NFS3_OK"
           /\ DOMAIN TheResult(i).body
                = {"object", "obj_attributes", "dir_attributes"}
           /\ TheResult(i).body.object = ResolvedIno(i)
           /\ TheResult(i).body.obj_attributes
                = Some(statToFattr3(ResolvedStat(i)))
      /\ TheResult(i).body.dir_attributes # None <=> Succeeded(i, 1)
      /\ Succeeded(i, 1) =>
           TheResult(i).body.dir_attributes = Some(statToFattr3(Outcome(i, 1)))

\* dispatcher.lookup succeeded and the directory getattr failed: NFS3_OK
\* without directory attributes.
C22_Witness ==
  \E i \in Slots :
    /\ LookupShort(i) /\ Replied(i)
    /\ calls[i][2].op = "lookup"
    /\ Succeeded(i, 2) /\ Failed(i, 1)
    /\ TheResult(i).status = "NFS3_OK"
    /\ TheResult(i).body.dir_attributes = None

(***************************************************************************)
(* C23: READLINK issues getattr and then readlink on the symlink before    *)
(* either can complete, and replies only after both have completed.  When  *)
(* readlink succeeded the reply is NFS3_OK with the link string, when it   *)
(* failed the status is the mapped readlink error, whatever getattr        *)
(* returned; the post-op attributes are present exactly when getattr       *)
(* succeeded.                                                              *)
(***************************************************************************)
ReadlinkRequest(i) == IsProc(i, "READLINK") /\ Rq(i).deser.ok

C23_ReadlinkJoin ==
  \A i \in Slots :
    ReadlinkRequest(i) =>
      /\ Len(calls[i]) = 2
      /\ calls[i][1].op = "getattr"
      /\ calls[i][1].args.ino = Rq(i).deser.symlink
      /\ calls[i][2].op = "readlink"
      /\ calls[i][2].args.ino = Rq(i).deser.symlink
      /\ IssuePos(i, 1) < IssuePos(i, 2)
      /\ \A n \in DOMAIN log[i] :
           log[i][n].e = "complete" => IssuePos(i, 2) < n
      /\ ResultsOf(i) # << >> =>
           \A k \in {1, 2} :
             Finished(i, k) /\ CompletePos(i, k) < ResultPos(i)
      /\ (Finished(i, 1) /\ Finished(i, 2)) => Replied(i)
      /\ Replied(i) =>
           /\ Succeeded(i, 2) =>
                /\ TheResult(i).status = "NFS3_OK"
                /\ TheResult(i).body.data = Outcome(i, 2)
           /\ Failed(i, 2) =>
                /\ TheResult(i).status = exceptionToNfsError(Outcome(i, 2))
                /\ DOMAIN TheResult(i).body = {"symlink_attributes"}
           /\ TheResult(i).body.symlink_attributes # None <=> Succeeded(i, 1)
           /\ Succeeded(i, 1) =>
                TheResult(i).body.symlink_attributes
                  = Some(statToFattr3(Outcome(i, 1)))

\* readlink completed first and failed, getattr failed later with an error
\* that maps to another status.
C23_Witness ==
  \E i \in Slots :
    /\ ReadlinkRequest(i) /\ Replied(i)
    /\ Failed(i, 1) /\ Failed(i, 2)
    /\ CompletePos(i, 2) < CompletePos(i, 1)
    /\ exceptionToNfsError(Outcome(i, 1)) # exceptionToNfsError(Outcome(i, 2))
    /\ TheResult(i).status = exceptionToNfsError(Outcome(i, 2))
    /\ TheResult(i).body.symlink_attributes = None

(***************************************************************************)
(* C24: FSSTAT and its two dispatcher calls.                               *)
(***************************************************************************)
FsstatRequest(i) == IsProc(i, "FSSTAT") /\ Rq(i).deser.ok

ScenarioStatFs ==
  [ f_blocks |-> 1000, f_bsize |-> 4096, f_bfree |-> 500, f_bavail |-> 400,
    f_files |-> 256, f_ffree |-> 100 ]

C25_FsstatValues ==
  \A i \in Slots :
    (FsstatRequest(i) /\ Replied(i) /\ Succeeded(i, 1)) =>
      LET S == Outcome(i, 1)
          body == TheResult(i).body
      IN /\ TheResult(i).status = "NFS3_OK"
         /\ body.tbytes = S.f_blocks * S.f_bsize
         /\ body.fbytes = S.f_bfree * S.f_bsize
         /\ body.abytes = S.f_bavail * S.f_bavail
         /\ body.tfiles = S.f_files
         /\ body.ffiles = S.f_ffree
         /\ body.afiles = S.f_ffree
         /\ body.invarsec = 0
         /\ S = ScenarioStatFs =>
              << body.tbytes, body.fbytes, body.abytes, body.tfiles,
                 body.ffiles, body.afiles, body.invarsec >>
                = << 4096000, 2048000, 160000, 256, 100, 100, 0 >>
         /\ body.obj_attributes # None <=> Succeeded(i, 2)
         /\ Succeeded(i, 2) =>
              body.obj_attributes = Some(statToFattr3(Outcome(i, 2)))

\* The scenario's statfs value, with a getattr that failed.
C25_Witness ==
  \E i \in Slots :
    /\ FsstatRequest(i) /\ Replied(i)
    /\ Succeeded(i, 1) /\ Outcome(i, 1) = ScenarioStatFs
    /\ Failed(i, 2)
    /\ TheResult(i).body.abytes = 160000
    /\ TheResult(i).body.obj_attributes = None

(***************************************************************************)
(* C26: for every WRITE request dispatcher.write is called exactly once,   *)
(* with the file handle and the offset of the request and with the first   *)
(* count bytes of its data, whose length is exactly count.                 *)
(***************************************************************************)
WriteRequest(i) == IsProc(i, "WRITE") /\ Rq(i).deser.ok

C26_WriteTruncates ==
  \A i \in Slots :
    WriteRequest(i) =>
      /\ Len(calls[i]) = 1
      /\ calls[i][1].op = "write"
      /\ calls[i][1].args.ino = Rq(i).deser.file
      /\ calls[i][1].args.offset = Rq(i).deser.offset
      /\ Len(calls[i][1].args.data) = Rq(i).deser.count
      /\ \A j \in 1..Rq(i).deser.count :
           calls[i][1].args.data[j] = Rq(i).deser.data[j]

(***************************************************************************)
(* C27: when dispatcher.write succeeded with {written, preStat, postStat}  *)
(* the WRITE reply is NFS3_OK; the before side of its wcc data is present  *)
(* exactly when preStat is, the after side exactly when postStat is, count *)
(* is written, committed is FILE_SYNC whatever stable value was requested, *)
(* and verf is 0.                                                          *)
(***************************************************************************)
C27_WriteReply ==
  \A i \in Slots :
    (WriteRequest(i) /\ Succeeded(i, 1)) =>
      /\ Replied(i)
      /\ LET writeRes == Outcome(i, 1)
             body == TheResult(i).body
         IN /\ TheResult(i).status = "NFS3_OK"
            /\ body.file_wcc.before # None <=> writeRes.preStat # None
            /\ writeRes.preStat # None =>
                 body.file_wcc.before
                   = Some([ size |-> writeRes.preStat[1].st_size,
                            mtime |-> [ seconds |-> writeRes.preStat[1].st_mtim.tv_sec,
                                        nseconds |-> writeRes.preStat[1].st_mtim.tv_nsec ],
                            ctime |-> [ seconds |-> writeRes.preStat[1].st_ctim.tv_sec,
                                        nseconds |-> writeRes.preStat[1].st_ctim.tv_nsec ] ])
            /\ body.file_wcc.after # None <=> writeRes.postStat # None
            /\ writeRes.postStat # None =>
                 body.file_wcc.after = Some(statToFattr3(writeRes.postStat[1]))
            /\ body.count = writeRes.written
            /\ body.committed = "FILE_SYNC"
            /\ body.verf = 0

\* An UNSTABLE write of all its bytes, with postStat and without preStat.
C27_Witness ==
  \E i \in Slots :
    /\ WriteRequest(i) /\ Replied(i) /\ Succeeded(i, 1)
    /\ Rq(i).deser.stable = "UNSTABLE"
    /\ Rq(i).deser.count = MaxCount
    /\ Outcome(i, 1).written = MaxCount
    /\ Outcome(i, 1).preStat = None /\ Outcome(i, 1).postStat # None
    /\ TheResult(i).body.file_wcc.before = None
    /\ TheResult(i).body.file_wcc.after # None
    /\ TheResult(i).body.committed = "FILE_SYNC"

(***************************************************************************)
(* C28: for every stat S, statToFattr3(S) has used = S.st_blocks * 512,    *)
(* fileid = S.st_ino, fsid = S.st_dev, rdev = {0, 0} and the file type of  *)
(* S's mode (NF3REG for S_IFREG, and so on for DIR, BLK, CHR, LNK, SOCK    *)
(* and FIFO); statToPostOpAttr gives the present variant holding that      *)
(* fattr3 when the attribute fetch succeeded and the absent variant when   *)
(* it failed.                                                              *)
(***************************************************************************)
\* The file kind a mode was built from.
KindOf(mode) ==
  CHOOSE k \in FileKinds : \E p \in Perms : mode = k.bits + p

\* F is the fattr3 the claim describes for stat S.
Fattr3Of(F, S) ==
  /\ F.used = S.st_blocks * 512
  /\ F.fileid = S.st_ino
  /\ F.fsid = S.st_dev
  /\ F.rdev = [specdata1 |-> 0, specdata2 |-> 0]
  /\ F.type = KindOf(S.st_mode).ftype

C28_AttrConversion ==
  attrIn # None =>
    LET t == attrIn[1] IN
    /\ attrOut.fattr # None => Fattr3Of(attrOut.fattr[1], t.v)
    /\ attrOut.post # None =>
         IF t.ok
         THEN /\ Len(attrOut.post[1]) = 1
              /\ Fattr3Of(attrOut.post[1][1], t.v)
              /\ attrOut.fattr # None => attrOut.post[1] = attrOut.fattr
         ELSE attrOut.post[1] = None

\* Both conversions have run on the stat of a socket of 2 blocks.
C28_Witness ==
  /\ attrIn # None /\ attrIn[1].ok
  /\ attrIn[1].v.st_mode = S_IFSOCK + 493
  /\ attrIn[1].v.st_blocks = 2
  /\ attrOut.fattr # None /\ attrOut.post # None
  /\ attrOut.fattr[1].type = "NF3SOCK"
  /\ attrOut.fattr[1].used = 1024
  /\ attrOut.post[1] = attrOut.fattr

(***************************************************************************)
(* C29: the reply of LOOKUP and of READLINK does not depend on which of    *)
(* the two outstanding dispatcher calls completes first: two runs with the *)
(* same arguments and the same results of their dispatcher calls have      *)
(* written the same reply, whatever the orders of their completions, and   *)
(* a run writes its result body exactly once.                              *)
(***************************************************************************)
SameRun(i, j) == Rq(i) = Rq(j) /\ calls[i] = calls[j]

C29_OrderIndependent ==
  /\ \A i \in Slots : Len(ResultsOf(i)) <= 1
  /\ \A i \in Slots : pc[i] = "done" => Len(ResultsOf(i)) = 1
  /\ \A i, j \in Slots :
       (pc[i] = "done" /\ pc[j] = "done" /\ SameRun(i, j)) => ser[i] = ser[j]

\* Two runs of the same LOOKUP, the name resolving and the directory
\* getattr succeeding in both: in run 1 the directory getattr completed
\* first, in run 2 the lookup did, and the replies are the same.
C29_Witness ==
  /\ pc[1] = "done" /\ pc[2] = "done"
  /\ SameRun(1, 2)
  /\ IsProc(1, "LOOKUP") /\ Rq(1).deser.name = "a"
  /\ Succeeded(1, 1) /\ Succeeded(1, 2)
  /\ CompletePos(1, 1) < CompletePos(1, 2)
  /\ CompletePos(2, 2) < CompletePos(2, 1)
  /\ ser[1] = ser[2]
  /\ TheResult(1).body.dir_attributes # None

=============================================================================









